---- MODULE Spec2Model ----
(***************************************************************************)
(* Provenance-tag transfer and fee engines of botho cluster-tax scripts.   *)
(*                                                                         *)
(* The engines of the repository are modelled, each with its own           *)
(* specification over its own variables:                                   *)
(*   Spec        provenance_reference.py  (UTXOSet, compute_fee_rate,      *)
(*               transfer)                                                 *)
(*   SpecAccount gini_account_model.py    (ClusterWealth, apply_decay,     *)
(*               mix_tags, execute_transfer)                               *)
(*   SpecRounds  gini_account_model.py    (the same engine followed for    *)
(*               three transfers of small amounts)                         *)
(*   SpecAgents  gini_10yr_model.py       (transfer with redistribute)     *)
(*   SpecSim     wealth_cluster_tax.py    (Simulation.mint / transfer)     *)
(*   SpecFn      compute_fee_rate, three_segment_fee_rate, rate_bps,       *)
(*               apply_decay and mix_tags, one call each                   *)
(*   SpecLedger  gini_account_model.py    (ClusterWealth call by call)     *)
(*   SpecConc    gini_account_model.py    (two execute_transfer            *)
(*               invocations interleaved statement by statement)           *)
(*   SpecUtxoModel gini_utxo_model.py     (UTXOSet, blend_tags, transfer)  *)
(*                                                                         *)
(* Python integers are unbounded; products that exceed 32 bits are         *)
(* computed with MulDivMod, which never forms the full product.            *)
(***************************************************************************)
EXTENDS Integers, Sequences, FiniteSets, TLC

VARIABLES
    utxo_set,       \* provenance_reference.UTXOSet: [utxos, next_id]
    ref_obs,        \* observer of the reference engine: minted total, mints, fees, last call
    accounts,       \* gini_account_model SimState.accounts: id -> [balance, tags]
    cluster_wealth, \* gini_account_model.ClusterWealth: [wealth, next_cluster]
    fee_config,     \* gini_account_model SimState.fee_config
    acct_obs,       \* SimState.total_fees, and the observer: supply, last call
    state,          \* gini_10yr_model.SimState: [agents, fee_config, total_fees]
    agents_obs,     \* observer of gini_10yr_model: redistribute, supply, last call
    sim,            \* wealth_cluster_tax.Simulation: [utxo_counter, utxos,
                    \*   agent_utxos, total_fees_burned]
    sim_obs,        \* observer of the Simulation: minted total, calls, last call
    fn_obs,         \* the last call of a pure function: arguments and result
    ledger,         \* a gini_account_model.ClusterWealth driven call by call
    ledger_obs,     \* observer of ledger: calls, last call
    invocations,    \* concurrent execute_transfer invocations: their frames
                    \*   (pc, arguments, locals), and the state they started from
    utxo_model,     \* gini_utxo_model.SimState: [utxo_set, fee_config,
                    \*   total_fees, decay_rate]
    utxo_model_obs  \* observer of gini_utxo_model: calls, ids spent, last call

ref_vars == <<utxo_set, ref_obs>>
acct_vars == <<accounts, cluster_wealth, fee_config, acct_obs>>
agents_vars == <<state, agents_obs>>
sim_vars == <<sim, sim_obs>>
fn_vars == <<fn_obs>>
ledger_vars == <<ledger, ledger_obs>>
conc_vars == <<invocations>>
gu_vars == <<utxo_model, utxo_model_obs>>
vars == <<ref_vars, acct_vars, agents_vars, sim_vars, fn_vars, ledger_vars,
          conc_vars, gu_vars>>

(***************************************************************************)
(* Generic helpers                                                         *)
(***************************************************************************)

RECURSIVE SumSeq(_)
SumSeq(s) == IF s = <<>> THEN 0 ELSE Head(s) + SumSeq(Tail(s))

RECURSIVE SumSet(_, _)
\* sum of f[x] over the finite set S
SumSet(f, S) ==
    IF S = {} THEN 0
    ELSE LET x == CHOOSE y \in S : TRUE IN f[x] + SumSet(f, S \ {x})

Min(a, b) == IF a <= b THEN a ELSE b
Max(a, b) == IF a >= b THEN a ELSE b

RECURSIVE MulDivMod(_, _, _)
\* <<q, r>> with v * s = q * T + r and 0 <= r < T, for v, s >= 0 and T > 0.
\* Python evaluates v * s // T on unbounded integers; here the product is
\* never formed, s is consumed one octal digit at a time and every
\* intermediate stays below 8 * (T + v).
MulDivMod(v, s, T) ==
    IF s = 0 \/ v = 0 THEN <<0, 0>>
    ELSE LET h == MulDivMod(v, s \div 8, T)
             d == 8 * h[2] + (s % 8) * v
         IN  <<8 * h[1] + (d \div T), d % T>>

(***************************************************************************)
(* provenance_reference.py                                                 *)
(***************************************************************************)

\* bounds of the reference engine's exploration
MaxCalls == 3      \* calls (mint or transfer) per behaviour
MaxInputs == 2     \* length of an input_ids list

\* compute_fee_rate defaults r_min = 0.01, r_max = 0.15, as integer percent
R_MIN_PCT == 1
R_MAX_PCT == 15

Whale == 1000000          \* test_split_resistance: 1M coins from a 1M source
WhalePart == 100000       \* test_blend_on_combine: 100K coins from the 1M source
Poor == 10000             \* test_blend_on_combine: 10K coins from a 10K source
CombineOut == 95000       \* test_blend_on_combine: the single output
SybilTotal == 500000      \* test_sybil_resistance: 5 x 100K

\* (owner, value, source_wealth) of the caller's mints: the tests' coins and
\* small ones
MintChoices ==
    { <<"whale", Whale, Whale>>, <<"merchant", WhalePart, Whale>>,
      <<"merchant", Poor, Poor>>,
      <<"poor", 0, 7>>, <<"poor", 10, 100>>, <<"merchant", 30, 10>> }

Rep(n, x) == [i \in 1..n |-> x]

\* outputs lists handed to transfer
OutputChoices ==
    { <<>>,
      Rep(10, [owner |-> "whale", value |-> WhalePart]),
      [i \in 1..5 |-> [owner |-> <<"sybil", i>>, value |-> WhalePart]],
      <<[owner |-> "recipient", value |-> SybilTotal]>>,
      <<[owner |-> "recipient", value |-> CombineOut]>>,
      <<[owner |-> "recipient", value |-> 20]>>,
      <<[owner |-> "a", value |-> 10], [owner |-> "b", value |-> 10]>>,
      <<[owner |-> "a", value |-> 7], [owner |-> "b", value |-> 7],
        [owner |-> "c", value |-> 6]>>,
      <<[owner |-> "recipient", value |-> 0]>> }

MaxWealthChoices == {Whale, 100, 0}

EmptyUtxos == [i \in {} |-> 0]

\* UTXOSet.__init__
UTXOSetInit == [utxos |-> EmptyUtxos, next_id |-> 0]

\* UTXOSet.mint: the set after the mint; the new UTXO has id us.next_id
UTXOSetMint(us, owner, value, source_wealth) ==
    [utxos |-> [i \in DOMAIN us.utxos \cup {us.next_id} |->
                   IF i = us.next_id
                   THEN [id |-> us.next_id, value |-> value,
                         source_wealth |-> source_wealth, owner |-> owner]
                   ELSE us.utxos[i]],
     next_id |-> us.next_id + 1]

\* UTXOSet.spend: dict.pop of a present key
UTXOSetSpend(us, utxo_id) ==
    [utxos |-> [i \in DOMAIN us.utxos \ {utxo_id} |-> us.utxos[i]],
     next_id |-> us.next_id]

\* compute_fee_rate and int(total_output_value * fee_rate), as one exact
\* rational: rate = (max_wealth + 14 * min(source_wealth, max_wealth))
\*                  / (100 * max_wealth), or r_min when max_wealth <= 0.
\* The source evaluates the product in binary64. Evaluating the source on
\* every (total_output_value, source_wealth, max_wealth) that Spec reaches
\* gives this exact floor; on other inputs whose exact product is an
\* integer, binary64 can land just below it and int() then yields one less.
FeeRateNum(source_wealth, max_wealth) ==
    IF max_wealth <= 0 THEN R_MIN_PCT
    ELSE R_MIN_PCT * max_wealth
         + (R_MAX_PCT - R_MIN_PCT) * Min(source_wealth, max_wealth)

FeeRateDen(max_wealth) == IF max_wealth <= 0 THEN 100 ELSE 100 * max_wealth

ComputeFee(total_output_value, source_wealth, max_wealth) ==
    MulDivMod(FeeRateNum(source_wealth, max_wealth), total_output_value,
              FeeRateDen(max_wealth))[1]

\* the inputs list gathered by transfer (one entry per id, repeats included)
GatherInputs(us, input_ids) == [k \in 1..Len(input_ids) |-> us.utxos[input_ids[k]]]

TotalValue(inputs) == SumSeq([k \in 1..Len(inputs) |-> inputs[k].value])

\* mutant: the plain mean of the inputs' source_wealth, values ignored
BlendedUnweighted(inputs) ==
    SumSeq([k \in 1..Len(inputs) |-> inputs[k].source_wealth]) \div Len(inputs)

\* mutant: the value-weighted mean rounded up instead of truncated
BlendedRoundUp(inputs) ==
    LET T == TotalValue(inputs)
        qr == [k \in 1..Len(inputs) |->
                  MulDivMod(inputs[k].value, inputs[k].source_wealth, T)]
    IN  SumSeq([k \in 1..Len(inputs) |-> qr[k][1]])
        + ((SumSeq([k \in 1..Len(inputs) |-> qr[k][2]]) + T - 1) \div T)

\* mutant: the inputs' source_wealth added up
BlendedSummed(inputs) ==
    SumSeq([k \in 1..Len(inputs) |-> inputs[k].source_wealth])

\* sum(u.value * u.source_wealth for u in inputs) // total_input_value
BlendedSourceWealth(inputs) ==
    LET T == TotalValue(inputs)
        qr == [k \in 1..Len(inputs) |->
                  MulDivMod(inputs[k].value, inputs[k].source_wealth, T)]
    IN  SumSeq([k \in 1..Len(inputs) |-> qr[k][1]])
        + (SumSeq([k \in 1..Len(inputs) |-> qr[k][2]]) \div T)

TotalOutputValue(outputs) == SumSeq([k \in 1..Len(outputs) |-> outputs[k].value])

\* mutant: the fee charged output by output, each truncated on its own
TransferFeePerOutput(outputs, blended_source_wealth, max_wealth) ==
    SumSeq([k \in 1..Len(outputs) |->
               ComputeFee(outputs[k].value, blended_source_wealth, max_wealth)])

\* fee = int(total_output_value * compute_fee_rate(blended, max_wealth))
TransferFee(outputs, blended_source_wealth, max_wealth) ==
    ComputeFee(TotalOutputValue(outputs), blended_source_wealth, max_wealth)

\* the ids spent before utxo_set.spend raises KeyError on a repeated id
RECURSIVE SpendAll(_, _)
SpendAll(us, ids) ==
    IF ids = <<>> THEN [us |-> us, raised |-> FALSE]
    ELSE IF Head(ids) \notin DOMAIN us.utxos THEN [us |-> us, raised |-> TRUE]
    ELSE SpendAll(UTXOSetSpend(us, Head(ids)), Tail(ids))

RECURSIVE MintAll(_, _, _)
MintAll(us, outputs, source_wealth) ==
    IF outputs = <<>> THEN us
    ELSE MintAll(UTXOSetMint(us, Head(outputs).owner, Head(outputs).value,
                             source_wealth),
                 Tail(outputs), source_wealth)

Returned(ok, fee, new_utxos, us) ==
    [status |-> IF ok THEN "ok" ELSE "fail", fee |-> fee,
     new_utxos |-> new_utxos, utxo_set |-> us]

Raised(what, us) ==
    [status |-> what, fee |-> 0, new_utxos |-> <<>>, utxo_set |-> us]

\* transfer(utxo_set, input_ids, outputs, max_wealth): what it returns or
\* raises, and the UTXO set it leaves behind
transfer(us, input_ids, outputs, max_wealth) ==
    IF \E k \in 1..Len(input_ids) : input_ids[k] \notin DOMAIN us.utxos
    THEN Returned(FALSE, 0, <<>>, us)
    ELSE
    LET inputs == GatherInputs(us, input_ids)
        total_input_value == TotalValue(inputs)
        total_output_value == TotalOutputValue(outputs)
    IN  IF total_input_value = 0
        THEN Raised("ZeroDivisionError", us)
        ELSE
        LET blended_source_wealth == BlendedSourceWealth(inputs)
            fee == TransferFee(outputs, blended_source_wealth, max_wealth)
        IN  IF total_input_value < total_output_value + fee
            THEN Returned(FALSE, 0, <<>>, us)
            ELSE
            LET spent == SpendAll(us, input_ids)
            IN  IF spent.raised
                THEN Raised("KeyError", spent.us)
                ELSE
                LET after == MintAll(spent.us, outputs, blended_source_wealth)
                IN  Returned(TRUE, fee,
                             [k \in 1..Len(outputs) |->
                                 after.utxos[us.next_id + k - 1]],
                             after)

NoCall == [op |-> "none"]

RefInit ==
    /\ utxo_set = UTXOSetInit
    /\ ref_obs = [minted |-> 0, mints |-> {}, fees |-> 0, calls |-> 0, last |-> NoCall]

\* the caller mints a coin
Mint ==
    /\ ref_obs.calls < MaxCalls
    /\ \E c \in MintChoices :
          /\ utxo_set' = UTXOSetMint(utxo_set, c[1], c[2], c[3])
          /\ ref_obs' = [minted |-> ref_obs.minted + c[2],
                         mints |-> ref_obs.mints \cup {[value |-> c[2], source_wealth |-> c[3]]},
                         fees |-> ref_obs.fees,
                         calls |-> ref_obs.calls + 1,
                         last |-> [op |-> "mint"]]
    /\ UNCHANGED <<acct_vars, agents_vars, sim_vars, fn_vars, ledger_vars, conc_vars, gu_vars>>

InputIdChoices ==
    UNION { [1..n -> 0..utxo_set.next_id] : n \in 0..MaxInputs }

\* the caller calls transfer
Transfer ==
    /\ ref_obs.calls < MaxCalls
    /\ \E input_ids \in InputIdChoices, outputs \in OutputChoices,
          max_wealth \in MaxWealthChoices :
          LET res == transfer(utxo_set, input_ids, outputs, max_wealth)
          IN  /\ utxo_set' = res.utxo_set
              /\ ref_obs' = [minted |-> ref_obs.minted,
                             mints |-> ref_obs.mints,
                             fees |-> ref_obs.fees
                                      + (IF res.status = "ok" THEN res.fee ELSE 0),
                             calls |-> ref_obs.calls + 1,
                             last |-> [op |-> "transfer",
                                       before |-> utxo_set,
                                       input_ids |-> input_ids,
                                       outputs |-> outputs,
                                       max_wealth |-> max_wealth,
                                       status |-> res.status,
                                       fee |-> res.fee,
                                       new_utxos |-> res.new_utxos]]
    /\ UNCHANGED <<acct_vars, agents_vars, sim_vars, fn_vars, ledger_vars, conc_vars, gu_vars>>

(***************************************************************************)
(* gini_account_model.py                                                   *)
(***************************************************************************)

TAG_SCALE == 1000000
TAG_PRUNE_THRESHOLD == 100

\* bounds of the account model's exploration
NumAccounts == 3     \* accounts made by create_accounts
MaxTransfers == 2    \* execute_transfer calls per behaviour

\* balances create_accounts may draw (its lognormal sample, scaled down)
BalanceChoices == {0, 40, 500}

\* amount and decay_rate handed to execute_transfer
AmountChoices == {-1, 0, 40, 300}
DecayChoices == {50000, TAG_SCALE}

\* fee curves: main's "Flat 1%", main's "Prog 0.1%-30%" with the midpoint and
\* steepness run_simulation derives from the sample, and the full range of
\* rates with steepness 0
FeeConfigChoices ==
    { [r_min_bps |-> 100, r_max_bps |-> 100, w_mid |-> 0, steepness |-> 1],
      [r_min_bps |-> 10, r_max_bps |-> 3000, w_mid |-> 150, steepness |-> 75],
      [r_min_bps |-> 0, r_max_bps |-> 10000, w_mid |-> 40, steepness |-> 0] }

AccountIds == 0..(NumAccounts - 1)

EmptyTags == [c \in {} |-> 0]

\* mutant: the decayed weights kept without pruning
apply_decay_unpruned(tags, decay_rate) ==
    [c \in DOMAIN tags |-> tags[c] - MulDivMod(tags[c], decay_rate, TAG_SCALE)[1]]

\* apply_decay
apply_decay(tags, decay_rate) ==
    LET decay_amount(c) == MulDivMod(tags[c], decay_rate, TAG_SCALE)[1]
        new_weight(c) == tags[c] - decay_amount(c)
        kept == {c \in DOMAIN tags : new_weight(c) >= TAG_PRUNE_THRESHOLD}
    IN  [c \in kept |-> new_weight(c)]

TagGet(tags, c) == IF c \in DOMAIN tags THEN tags[c] ELSE 0

\* mutant: the weighted average kept without pruning
mix_tags_unpruned(self_tags, self_value, incoming_tags, incoming_value) ==
    LET total_value == self_value + incoming_value
        all_clusters == DOMAIN self_tags \cup DOMAIN incoming_tags
    IN  IF total_value = 0 THEN EmptyTags
        ELSE [c \in all_clusters |->
                 (self_value * TagGet(self_tags, c)
                  + incoming_value * TagGet(incoming_tags, c)) \div total_value]

\* mutant: the plain average of the two vectors, the values ignored
mix_tags_unweighted(self_tags, self_value, incoming_tags, incoming_value) ==
    LET all_clusters == DOMAIN self_tags \cup DOMAIN incoming_tags
        new_weight(c) == (TagGet(self_tags, c) + TagGet(incoming_tags, c)) \div 2
    IN  IF self_value + incoming_value = 0 THEN EmptyTags
        ELSE [c \in {d \in all_clusters : new_weight(d) >= TAG_PRUNE_THRESHOLD}
                 |-> new_weight(c)]

\* mix_tags
mix_tags(self_tags, self_value, incoming_tags, incoming_value) ==
    LET total_value == self_value + incoming_value
        all_clusters == DOMAIN self_tags \cup DOMAIN incoming_tags
        new_weight(c) ==
            (self_value * TagGet(self_tags, c)
             + incoming_value * TagGet(incoming_tags, c)) \div total_value
    IN  IF total_value = 0 THEN EmptyTags
        ELSE [c \in {d \in all_clusters : new_weight(d) >= TAG_PRUNE_THRESHOLD}
                 |-> new_weight(c)]

\* ClusterWealth.__init__
ClusterWealthInit == [wealth |-> [c \in {} |-> 0], next_cluster |-> 0]

\* ClusterWealth.get
ClusterWealthGet(cw, cluster_id) ==
    IF cluster_id \in DOMAIN cw.wealth THEN cw.wealth[cluster_id] ELSE 0

\* mutant: new_cluster handing out the same id again
ClusterWealthNewClusterSameId(cw) ==
    [wealth |-> [c \in DOMAIN cw.wealth \cup {cw.next_cluster} |->
                    IF c = cw.next_cluster THEN 0 ELSE cw.wealth[c]],
     next_cluster |-> cw.next_cluster]

\* ClusterWealth.new_cluster: the ledger after it; the id returned is
\* cw.next_cluster
ClusterWealthNewCluster(cw) ==
    [wealth |-> [c \in DOMAIN cw.wealth \cup {cw.next_cluster} |->
                    IF c = cw.next_cluster THEN 0 ELSE cw.wealth[c]],
     next_cluster |-> cw.next_cluster + 1]

\* mutant: the delta added without the clamp at 0
ClusterWealthApplyDeltaUnclamped(cw, cluster_id, delta) ==
    [wealth |-> [c \in DOMAIN cw.wealth \cup {cluster_id} |->
                    IF c = cluster_id
                    THEN ClusterWealthGet(cw, cluster_id) + delta
                    ELSE cw.wealth[c]],
     next_cluster |-> cw.next_cluster]

\* ClusterWealth.apply_delta
ClusterWealthApplyDelta(cw, cluster_id, delta) ==
    [wealth |-> [c \in DOMAIN cw.wealth \cup {cluster_id} |->
                    IF c = cluster_id
                    THEN Max(0, ClusterWealthGet(cw, cluster_id) + delta)
                    ELSE cw.wealth[c]],
     next_cluster |-> cw.next_cluster]

\* 10^4 / (1 + exp(-k)) for an integer k, rounded down and rounded up
SigmoidFloorTable ==
    <<1, 3, 9, 24, 66, 179, 474, 1192, 2689, 5000,
      7310, 8807, 9525, 9820, 9933, 9975, 9990, 9996, 9998>>
SigmoidCeilTable ==
    <<2, 4, 10, 25, 67, 180, 475, 1193, 2690, 5000,
      7311, 8808, 9526, 9821, 9934, 9976, 9991, 9997, 9999>>
SigmoidFloor(k) ==
    IF k <= -10 THEN 0 ELSE IF k >= 10 THEN 9999 ELSE SigmoidFloorTable[k + 10]
SigmoidCeil(k) ==
    IF k <= -10 THEN 1 ELSE IF k >= 10 THEN 10000 ELSE SigmoidCeilTable[k + 10]

\* where 1 / (1 + exp(-x)) is 1.0 in binary64, and where below -x it is so
\* small that int(amount * rate / 10_000) is the fee of r_min_bps
SIGMOID_SATURATED == 37

CeilDiv(a, b) == (a + b - 1) \div b

\* FeeConfig.rate_bps where (effective_wealth - w_mid) / max(steepness, 1)
\* is x_num / x_den: the sigmoid is transcendental, so the rate is
\* bracketed in whole basis points between the sigmoid at floor(x) and at
\* floor(x) + 1; the bracket is a single rate for a flat curve, in
\* saturation, and at x = 0.
SigmoidRateBracket(cfg, x_num, x_den) ==
    IF cfg.r_min_bps = cfg.r_max_bps
    THEN [lo |-> cfg.r_min_bps, hi |-> cfg.r_min_bps]
    ELSE
    LET k == x_num \div x_den
        whole == (x_num % x_den = 0)
        span == cfg.r_max_bps - cfg.r_min_bps
    IN  IF k >= SIGMOID_SATURATED
        THEN [lo |-> cfg.r_max_bps, hi |-> cfg.r_max_bps]
        ELSE IF k < -SIGMOID_SATURATED \/ (k = -SIGMOID_SATURATED /\ whole)
        THEN [lo |-> cfg.r_min_bps, hi |-> cfg.r_min_bps]
        ELSE [lo |-> cfg.r_min_bps + ((span * SigmoidFloor(k)) \div 10000),
              hi |-> cfg.r_min_bps
                     + CeilDiv(span * SigmoidCeil(IF whole THEN k ELSE k + 1),
                               10000)]

\* FeeConfig.rate_bps at effective wealth ew_num / TAG_SCALE
RateBpsBracket(cfg, ew_num) ==
    SigmoidRateBracket(cfg, ew_num - cfg.w_mid * TAG_SCALE,
                       TAG_SCALE * Max(cfg.steepness, 1))

RECURSIVE MaxOver(_, _)
\* max(0, max of f[x] over S)
MaxOver(f, S) ==
    IF S = {} THEN 0
    ELSE LET x == CHOOSE y \in S : TRUE IN Max(f[x], MaxOver(f, S \ {x}))

\* max_effective of effective_fee_rate, times TAG_SCALE: the max over the
\* account's tags of weight * cluster_wealth.get(cluster_id), 0 for no tags
max_effective(account, cw) ==
    MaxOver([c \in DOMAIN account.tags |->
                account.tags[c] * ClusterWealthGet(cw, c)],
            DOMAIN account.tags)

\* effective_fee_rate: the curve's bracket at max_effective
effective_fee_rate(account, cw, cfg) ==
    RateBpsBracket(cfg, max_effective(account, cw))

\* the values int(amount * fee_rate / 10_000) can take over the bracket
FeeChoices(account, cw, cfg, amount) ==
    LET b == effective_fee_rate(account, cw, cfg)
    IN  ((amount * b.lo) \div 10000) .. ((amount * b.hi) \div 10000)

RECURSIVE ApplyDeltas(_, _, _, _)
\* cluster_wealth.apply_delta(c, sign * (value * tags[c] // TAG_SCALE)) for
\* every c of tags
ApplyDeltas(cw, tags, value, sign) ==
    IF DOMAIN tags = {} THEN cw
    ELSE LET c == CHOOSE d \in DOMAIN tags : TRUE
         IN  ApplyDeltas(
                 ClusterWealthApplyDelta(cw, c,
                     sign * ((value * tags[c]) \div TAG_SCALE)),
                 [d \in DOMAIN tags \ {c} |-> tags[d]], value, sign)

\* mutant: the validation checks the balance and not the sign of amount
TransferRejectedUnsigned(sender_balance, amount) ==
    sender_balance < amount

\* the validation of execute_transfer
TransferRejected(sender_balance, amount) ==
    sender_balance < amount \/ amount <= 0

\* mutant: the receiver is credited the whole amount, the fee is not taken
NetAmountWithoutFee(amount, fee) == amount

\* mutant: the fee charged to the receiver twice
NetAmountLessTwoFees(amount, fee) == amount - 2 * fee

\* net_amount = amount - fee
NetAmount(amount, fee) == amount - fee

\* execute_transfer(sender, receiver, amount, decay_rate, fee_config,
\* cluster_wealth), sender and receiver being accounts accts[s] and accts[r]
\* (the same object when s = r) and fee the value of
\* int(amount * fee_rate / 10_000): what it returns and what it leaves
execute_transfer(accts, cw, s, r, amount, decay_rate, fee) ==
    IF TransferRejected(accts[s].balance, amount)
    THEN [success |-> FALSE, fee |-> 0, accounts |-> accts, cluster_wealth |-> cw]
    ELSE
    LET net_amount == NetAmount(amount, fee)
        accts1 == [accts EXCEPT ![s].balance = @ - amount]
        transferred_tags == apply_decay(accts[s].tags, decay_rate)
        cw1 == ApplyDeltas(cw, accts1[s].tags, amount, -1)
        cw2 == ApplyDeltas(cw1, transferred_tags, net_amount, 1)
        receiver_balance_before == accts1[r].balance
        accts2 == [accts1 EXCEPT
                      ![r].tags = mix_tags(accts1[r].tags, receiver_balance_before,
                                           transferred_tags, net_amount)]
        accts3 == [accts2 EXCEPT ![r].balance = @ + net_amount]
    IN  [success |-> TRUE, fee |-> fee, accounts |-> accts3, cluster_wealth |-> cw2]

RECURSIVE CreateLedger(_, _, _)
\* the ledger create_accounts builds: new_cluster() and apply_delta(id,
\* balance) for account i, i + 1, ...
CreateLedger(cw, balances, i) ==
    IF i = NumAccounts THEN cw
    ELSE CreateLedger(
             ClusterWealthApplyDelta(ClusterWealthNewCluster(cw),
                                     cw.next_cluster, balances[i]),
             balances, i + 1)

\* create_accounts: balances in ascending order (it walks argsort), each
\* account fully attributed to its own new cluster
AccountInit ==
    /\ \E balances \in [AccountIds -> BalanceChoices] :
          /\ \A i, j \in AccountIds : i <= j => balances[i] <= balances[j]
          /\ accounts = [i \in AccountIds |->
                            [balance |-> balances[i],
                             tags |-> [c \in {i} |-> TAG_SCALE]]]
          /\ cluster_wealth = CreateLedger(ClusterWealthInit, balances, 0)
          /\ acct_obs = [total_fees |-> 0,
                         initial_supply |-> SumSet(balances, AccountIds),
                         calls |-> 0, last |-> NoCall]
    /\ fee_config \in FeeConfigChoices

\* run_round's use of execute_transfer: the call, and total_fees += fee on
\* success
ExecuteTransfer ==
    /\ acct_obs.calls < MaxTransfers
    /\ \E s \in AccountIds, r \in AccountIds, amount \in AmountChoices,
          decay_rate \in DecayChoices :
          \E fee \in FeeChoices(accounts[s], cluster_wealth, fee_config, amount) :
             LET res == execute_transfer(accounts, cluster_wealth, s, r, amount,
                                         decay_rate, fee)
             IN  /\ accounts' = res.accounts
                 /\ cluster_wealth' = res.cluster_wealth
                 /\ acct_obs' = [acct_obs EXCEPT
                        !.total_fees = @ + (IF res.success THEN res.fee ELSE 0),
                        !.calls = @ + 1,
                        !.last = [op |-> "execute_transfer",
                                  sender |-> s, receiver |-> r,
                                  amount |-> amount, decay_rate |-> decay_rate,
                                  accounts_before |-> accounts,
                                  cluster_wealth_before |-> cluster_wealth,
                                  success |-> res.success, fee |-> res.fee]]
    /\ UNCHANGED <<fee_config, ref_vars, agents_vars, sim_vars, fn_vars, ledger_vars, conc_vars, gu_vars>>

(***************************************************************************)
(* gini_10yr_model.py                                                      *)
(*                                                                         *)
(* Balances, amounts, fees and cluster_wealth are floats in the source.    *)
(* They are counted here in units of 1 / COIN of a coin, COIN chosen so    *)
(* that the fee of a whole-coin amount at a whole basis-point rate, and    *)
(* its equal shares among the retail agents, are whole numbers of units;   *)
(* cluster_wealth is kept to the unit, rounded down.                       *)
(***************************************************************************)

\* bounds of this engine's exploration
NumAgents == 4          \* agents made by create_lognormal_agents
MaxAgentTransfers == 2  \* transfer calls per behaviour

AgentIds == 0..(NumAgents - 1)

\* create_lognormal_agents: pct = i / n; "retail" below 0.70, "merchant"
\* below 0.90, "whale" above
AgentType(i) ==
    IF 100 * i < 70 * NumAgents THEN "retail"
    ELSE IF 100 * i < 90 * NumAgents THEN "merchant" ELSE "whale"

RetailIds == {i \in AgentIds : AgentType(i) = "retail"}

COIN == 10000 * Cardinality(RetailIds)

\* balances (in coins) create_lognormal_agents may draw, amounts (in coins)
\* handed to transfer
AgentBalanceChoices == {1, 5, 20}
AgentAmountChoices == {-1, 0, 1, 4}

\* main's "Flat 1%" and "Prog 0.1%-30%", the latter with the midpoint and
\* steepness run_simulation derives from the sample (in coins)
AgentFeeConfigChoices ==
    { [r_min_bps |-> 100, r_max_bps |-> 100, w_mid |-> 0, steepness |-> 1],
      [r_min_bps |-> 10, r_max_bps |-> 3000, w_mid |-> 6, steepness |-> 3] }

\* FeeConfig.rate_bps at cluster_wealth cw units: the ends of the bracket
AgentRates(cfg, cw) ==
    LET b == SigmoidRateBracket(cfg, cw - cfg.w_mid * COIN,
                                COIN * Max(cfg.steepness, 1))
    IN  {b.lo, b.hi}

RECURSIVE AddShare(_, _, _)
\* for a in retail: a.balance += share
AddShare(agents, ids, share) ==
    IF ids = {} THEN agents
    ELSE LET a == CHOOSE i \in ids : TRUE
         IN  AddShare([agents EXCEPT ![a].balance = @ + share], ids \ {a}, share)

\* mutant: the fee is recorded and not handed to anyone
RedistributeNothing(agents, fee) == agents

\* the redistribute branch of transfer: the fee in equal shares to the
\* retail agents
Redistribute(agents, fee) ==
    LET retail == {i \in DOMAIN agents : agents[i].agent_type = "retail"}
    IN  IF retail # {}
        THEN AddShare(agents, retail, fee \div Cardinality(retail))
        ELSE agents

\* transfer(state, sender, receiver, amount, redistribute, decay = 0.05),
\* amount in units and rate in basis points: what it returns and the state
\* it leaves
agent_transfer(st, sender, receiver, amount, redistribute, rate) ==
    IF st.agents[sender].balance < amount \/ amount <= 0
    THEN [ok |-> FALSE, state |-> st]
    ELSE
    LET fee == (amount * rate) \div 10000
        net == amount - fee
        a1 == [st.agents EXCEPT ![sender].balance = @ - amount]
        a2 == [a1 EXCEPT ![receiver].balance = @ + net]
        a3 == [a2 EXCEPT ![sender].cluster_wealth = Max(0, @ - amount)]
        a4 == [a3 EXCEPT ![receiver].cluster_wealth =
                             ((@ * 95) \div 100) + ((net * 5) \div 100)]
        a5 == IF redistribute /\ fee > 0 THEN Redistribute(a4, fee) ELSE a4
    IN  [ok |-> TRUE,
         state |-> [agents |-> a5, fee_config |-> st.fee_config,
                    total_fees |-> st.total_fees + fee]]

\* run_simulation: create_lognormal_agents (balances ascending, each
\* agent's cluster_wealth its balance) and SimState
AgentsInit ==
    \E balances \in [AgentIds -> AgentBalanceChoices],
       cfg \in AgentFeeConfigChoices, redistribute \in BOOLEAN :
       /\ \A i, j \in AgentIds : i <= j => balances[i] <= balances[j]
       /\ state = [agents |-> [i \in AgentIds |->
                                  [balance |-> balances[i] * COIN,
                                   agent_type |-> AgentType(i),
                                   cluster_wealth |-> balances[i] * COIN]],
                   fee_config |-> cfg,
                   total_fees |-> 0]
       /\ agents_obs = [redistribute |-> redistribute,
                        initial_supply |-> SumSet(balances, AgentIds) * COIN,
                        calls |-> 0, last |-> NoCall]

\* run_round's calls of transfer
AgentTransfer ==
    /\ agents_obs.calls < MaxAgentTransfers
    /\ \E sender \in AgentIds, receiver \in AgentIds,
          amount \in AgentAmountChoices :
          \E rate \in AgentRates(state.fee_config,
                                 state.agents[sender].cluster_wealth) :
             LET res == agent_transfer(state, sender, receiver, amount * COIN,
                                       agents_obs.redistribute, rate)
             IN  /\ state' = res.state
                 /\ agents_obs' = [agents_obs EXCEPT
                        !.calls = @ + 1,
                        !.last = [op |-> "transfer", sender |-> sender,
                                  receiver |-> receiver, amount |-> amount * COIN,
                                  ok |-> res.ok,
                                  fee |-> res.state.total_fees - state.total_fees]]
    /\ UNCHANGED <<ref_vars, acct_vars, sim_vars, fn_vars, ledger_vars, conc_vars, gu_vars>>

(***************************************************************************)
(* wealth_cluster_tax.py: Simulation                                       *)
(*                                                                         *)
(* UTXO.cluster_wealth is a float; it is carried here as an exact fraction *)
(* [num, den] in lowest terms, and rates are fractions of 100.             *)
(***************************************************************************)

NumSimAgents == 2
MaxSimCalls == 3

DECAY_PCT == 5
FLAT_PCT == 5
PROG_MIN_PCT == 1
PROG_SPAN_PCT == 29

SimAgents == 0 .. NumSimAgents - 1
SimMintValues == {10, 20}
SimAmountChoices == {-5, 0, 10, 15}
FeeFns == {"progressive_fee_rate", "flat_fee_rate"}

RECURSIVE GCD(_, _)
GCD(a, b) == IF b = 0 THEN a ELSE GCD(b, a % b)

\* the fraction n / d (d # 0) in lowest terms with a positive denominator
Frac(n, d) ==
    LET sn == IF d < 0 THEN -n ELSE n
        sd == IF d < 0 THEN -d ELSE d
        g == GCD(IF sn < 0 THEN -sn ELSE sn, sd)
    IN  [num |-> sn \div g, den |-> sd \div g]

FracAdd(x, y) == Frac(x.num * y.den + y.num * x.den, x.den * y.den)

FracLess(x, y) == x.num * y.den < y.num * x.den

\* int(): truncation toward zero of n / d, d > 0
TruncDiv(n, d) == IF n >= 0 THEN n \div d ELSE -((-n) \div d)

SimulationInit ==
    [utxo_counter |-> 0,
     utxos |-> <<>>,
     agent_utxos |-> [a \in SimAgents |-> <<>>],
     total_fees_burned |-> 0]

RECURSIVE SumValues(_, _)
\* sum of utxos[uid].value over the list of ids
SumValues(utxos, ids) ==
    IF ids = <<>> THEN 0
    ELSE utxos[Head(ids)].value + SumValues(utxos, Tail(ids))

get_agent_wealth(sm, agent) == SumValues(sm.utxos, sm.agent_utxos[agent])

\* a function extended or overwritten at one key
Put(f, k, v) == [x \in DOMAIN f \cup {k} |-> IF x = k THEN v ELSE f[x]]

SimMint(sm, owner, value) ==
    LET owner_wealth == get_agent_wealth(sm, owner) + value
        utxo == [id |-> sm.utxo_counter,
                 value |-> value,
                 cluster_wealth |-> Frac(owner_wealth, 1),
                 owner |-> owner]
    IN  [sm EXCEPT !.utxo_counter = @ + 1,
                   !.utxos = Put(@, utxo.id, utxo),
                   !.agent_utxos[owner] = Append(@, utxo.id)]

\* 0.01 + 0.29 * min(1.0, cluster_wealth / max_wealth), as a fraction
progressive_fee_rate(cw, max_wealth) ==
    IF max_wealth <= 0 THEN Frac(PROG_MIN_PCT, 100)
    ELSE IF cw.num >= cw.den * max_wealth
         THEN Frac(PROG_MIN_PCT + PROG_SPAN_PCT, 100)
         ELSE Frac(PROG_MIN_PCT * cw.den * max_wealth + PROG_SPAN_PCT * cw.num,
                   100 * cw.den * max_wealth)

flat_fee_rate(cw, max_wealth) == Frac(FLAT_PCT, 100)

FeeRate(fee_fn, cw, max_wealth) ==
    IF fee_fn = "flat_fee_rate" THEN flat_fee_rate(cw, max_wealth)
    ELSE progressive_fee_rate(cw, max_wealth)

RECURSIVE InsertByValue(_, _, _)
\* id inserted after every entry whose value is not larger (sorted() is stable)
InsertByValue(utxos, sorted, uid) ==
    IF sorted = <<>> THEN <<uid>>
    ELSE IF utxos[Head(sorted)].value <= utxos[uid].value
         THEN <<Head(sorted)>> \o InsertByValue(utxos, Tail(sorted), uid)
         ELSE <<uid>> \o sorted

RECURSIVE SortedByValue(_, _)
SortedByValue(utxos, ids) ==
    IF ids = <<>> THEN <<>>
    ELSE InsertByValue(utxos, SortedByValue(utxos, SubSeq(ids, 1, Len(ids) - 1)),
                       ids[Len(ids)])

RECURSIVE SelectToSpend(_, _, _, _)
\* the smallest-first prefix taken until spent_value >= amount
SelectToSpend(utxos, sorted, spent_value, amount) ==
    IF sorted = <<>> THEN <<>>
    ELSE LET now == spent_value + utxos[Head(sorted)].value
         IN  IF now >= amount THEN <<Head(sorted)>>
             ELSE <<Head(sorted)>> \o SelectToSpend(utxos, Tail(sorted), now, amount)

RECURSIVE WeightedSum(_, _)
\* sum of value * cluster_wealth over the list of ids, as a fraction
WeightedSum(utxos, ids) ==
    IF ids = <<>> THEN Frac(0, 1)
    ELSE LET u == utxos[Head(ids)]
         IN  FracAdd(Frac(u.value * u.cluster_wealth.num, u.cluster_wealth.den),
                     WeightedSum(utxos, Tail(ids)))

WeightedCluster(utxos, to_spend) ==
    LET w == WeightedSum(utxos, to_spend)
    IN  Frac(w.num, w.den * SumValues(utxos, to_spend))

RECURSIVE MaxWealth(_, _)
\* max(get_agent_wealth(a) for a in range(n_agents)), n_agents >= 1
MaxWealth(sm, a) ==
    IF a = 0 THEN get_agent_wealth(sm, 0)
    ELSE Max(get_agent_wealth(sm, a), MaxWealth(sm, a - 1))

RECURSIVE RemoveId(_, _)
\* list.remove: the first occurrence dropped
RemoveId(ids, uid) ==
    IF ids = <<>> THEN <<>>
    ELSE IF Head(ids) = uid THEN Tail(ids)
         ELSE <<Head(ids)>> \o RemoveId(Tail(ids), uid)

RECURSIVE RemoveSpent(_, _, _)
RemoveSpent(sm, sender, to_spend) ==
    IF to_spend = <<>> THEN sm
    ELSE RemoveSpent(
             [sm EXCEPT !.utxos = [x \in DOMAIN @ \ {Head(to_spend)} |-> @[x]],
                        !.agent_utxos[sender] = RemoveId(@, Head(to_spend))],
             sender, Tail(to_spend))

\* mutant: the new UTXO holds one unit more than it was given
AddUtxoOneMore(sm, value, cw, owner) ==
    [sm EXCEPT !.utxo_counter = @ + 1,
               !.utxos = Put(@, sm.utxo_counter,
                             [id |-> sm.utxo_counter, value |-> value + 1,
                              cluster_wealth |-> cw, owner |-> owner]),
               !.agent_utxos[owner] = Append(@, sm.utxo_counter)]

\* weighted_cluster * (1 - decay)
DecayedCluster(weighted_cluster) ==
    Frac(weighted_cluster.num * (100 - DECAY_PCT), weighted_cluster.den * 100)

AddUtxo(sm, value, cw, owner) ==
    [sm EXCEPT !.utxo_counter = @ + 1,
               !.utxos = Put(@, sm.utxo_counter,
                             [id |-> sm.utxo_counter, value |-> value,
                              cluster_wealth |-> cw, owner |-> owner]),
               !.agent_utxos[owner] = Append(@, sm.utxo_counter)]

\* Simulation.transfer: [status, fee, inputs, outputs, sim]; status is "ok"
\* for True, "fail" for False, or the name of the exception raised.
\* fee is int(amount * fee_rate) on exact fractions; the source's binary64
\* product gives the same integer on every call sequence within the bounds
\* below, and can land one toward zero of it on longer ones where
\* amount * fee_rate is a whole number.
sim_transfer(sm, sender, receiver, amount, fee_fn) ==
    LET sender_utxos == sm.agent_utxos[sender]
        total == SumValues(sm.utxos, sender_utxos)
        to_spend == SelectToSpend(sm.utxos, SortedByValue(sm.utxos, sender_utxos),
                                  0, amount)
        spent_value == SumValues(sm.utxos, to_spend)
        inputs == [i \in 1 .. Len(to_spend) |-> sm.utxos[to_spend[i]]]
        Out(status, fee, ins, outs, after) ==
            [status |-> status, fee |-> fee, inputs |-> ins, outputs |-> outs,
             sim |-> after]
    IN  IF total < amount THEN Out("fail", 0, <<>>, <<>>, sm)
        ELSE IF spent_value = 0 THEN Out("ZeroDivisionError", 0, <<>>, <<>>, sm)
        ELSE
          LET weighted_cluster == WeightedCluster(sm.utxos, to_spend)
              max_wealth == MaxWealth(sm, NumSimAgents - 1)
              fee_rate == FeeRate(fee_fn, weighted_cluster, max_wealth)
              fee == TruncDiv(amount * fee_rate.num, fee_rate.den)
          IN  IF spent_value < amount + fee THEN Out("fail", 0, inputs, <<>>, sm)
              ELSE
                LET removed == RemoveSpent(sm, sender, to_spend)
                    decayed_cluster == DecayedCluster(weighted_cluster)
                    paid == AddUtxo(removed, amount, decayed_cluster, receiver)
                    change == spent_value - amount - fee
                    changed == IF change > 0
                               THEN AddUtxo(paid, change, decayed_cluster, sender)
                               ELSE paid
                IN  Out("ok", fee, inputs,
                        [i \in 1 .. (changed.utxo_counter - sm.utxo_counter) |->
                            changed.utxos[sm.utxo_counter + i - 1]],
                        [changed EXCEPT !.total_fees_burned = @ + fee])

SimInit ==
    /\ sim = SimulationInit
    /\ sim_obs = [minted |-> 0, calls |-> 0, last |-> NoCall]

SimulationMint ==
    /\ sim_obs.calls < MaxSimCalls
    /\ \E owner \in SimAgents, value \in SimMintValues :
          /\ sim' = SimMint(sim, owner, value)
          /\ sim_obs' = [minted |-> sim_obs.minted + value,
                         calls |-> sim_obs.calls + 1,
                         last |-> [op |-> "mint", owner |-> owner, value |-> value]]
    /\ UNCHANGED <<ref_vars, acct_vars, agents_vars, fn_vars, ledger_vars, conc_vars, gu_vars>>

SimulationTransfer ==
    /\ sim_obs.calls < MaxSimCalls
    /\ \E sender \in SimAgents, receiver \in SimAgents,
          amount \in SimAmountChoices, fee_fn \in FeeFns :
          LET r == sim_transfer(sim, sender, receiver, amount, fee_fn)
          IN  /\ sim' = r.sim
              /\ sim_obs' = [sim_obs EXCEPT
                    !.calls = @ + 1,
                    !.last = [op |-> "transfer", sender |-> sender,
                              receiver |-> receiver, amount |-> amount,
                              fee_fn |-> fee_fn, status |-> r.status,
                              fee |-> r.fee, inputs |-> r.inputs,
                              outputs |-> r.outputs, sim_before |-> sim]]
    /\ UNCHANGED <<ref_vars, acct_vars, agents_vars, fn_vars, ledger_vars, conc_vars, gu_vars>>

(***************************************************************************)
(* Pure functions called on their own, once per behaviour:                 *)
(* compute_fee_rate with the fee transfer derives from it, apply_decay,    *)
(* mix_tags                                                                *)
(***************************************************************************)

\* arguments of compute_fee_rate and the total output value of transfer;
\* r_min and r_max in percent
FnTotalChoices == {-100, 0, 7, 100, 1000}
FnSourceWealthChoices == {-10, 0, 10, 50, 100, 2000}
FnMaxWealthChoices == {0, 100, 1000}
FnRatePctChoices == {0, R_MIN_PCT, R_MAX_PCT, 100}

\* arguments of apply_decay and mix_tags
FnWeightChoices == {TAG_PRUNE_THRESHOLD, 101, 1000, 1010, 500000, TAG_SCALE}
FnDecayChoices == {0, 1, 50000, 500000, TAG_SCALE}
FnValueChoices == {0, 1, 40, 300}
FnTagChoices ==
    { EmptyTags,
      [c \in {0} |-> TAG_SCALE],
      [c \in {0} |-> 500000],
      [c \in {0} |-> 50],
      [c \in {1} |-> TAG_PRUNE_THRESHOLD],
      [c \in {0, 1} |-> IF c = 0 THEN 600000 ELSE 400000],
      [c \in {0, 1} |-> IF c = 0 THEN 700000 ELSE 99] }

\* compute_fee_rate(source_wealth, max_wealth, r_min, r_max) as a fraction,
\* r_min and r_max given in percent
compute_fee_rate(source_wealth, max_wealth, r_min, r_max) ==
    IF max_wealth <= 0 THEN Frac(r_min, 100)
    ELSE Frac(r_min * max_wealth + (r_max - r_min) * Min(source_wealth, max_wealth),
              100 * max_wealth)

\* int(total_output_value * fee_rate)
FeeOfRate(total_output_value, fee_rate) ==
    TruncDiv(total_output_value * fee_rate.num, fee_rate.den)

ComputeFeeRateCall ==
    /\ fn_obs = NoCall
    /\ \E total \in FnTotalChoices, a \in FnSourceWealthChoices,
          b \in FnSourceWealthChoices, max_wealth \in FnMaxWealthChoices,
          r_min \in FnRatePctChoices, r_max \in FnRatePctChoices :
           /\ r_max >= r_min
           /\ fn_obs' = [op |-> "compute_fee_rate", total |-> total,
                         source_wealth_a |-> a, source_wealth_b |-> b,
                         max_wealth |-> max_wealth, r_min |-> r_min, r_max |-> r_max,
                         rate_a |-> compute_fee_rate(a, max_wealth, r_min, r_max),
                         fee_a |-> FeeOfRate(total,
                                      compute_fee_rate(a, max_wealth, r_min, r_max)),
                         fee_b |-> FeeOfRate(total,
                                      compute_fee_rate(b, max_wealth, r_min, r_max))]
    /\ UNCHANGED <<ref_vars, acct_vars, agents_vars, sim_vars, ledger_vars, conc_vars, gu_vars>>

\* gini_3segment.py: the defaults of three_segment_fee_rate and the three
\* 3-segment configurations of main; fractions and rates in percent
ThreeSegConfigs ==
    { [w1 |-> 10, w2 |-> 50, r_poor |-> 1, r_mid_start |-> 2, r_mid_end |-> 12,
       r_rich |-> 15],
      [w1 |-> 10, w2 |-> 60, r_poor |-> 1, r_mid_start |-> 1, r_mid_end |-> 12,
       r_rich |-> 15],
      [w1 |-> 15, w2 |-> 70, r_poor |-> 1, r_mid_start |-> 2, r_mid_end |-> 10,
       r_rich |-> 15],
      [w1 |-> 20, w2 |-> 80, r_poor |-> 2, r_mid_start |-> 3, r_mid_end |-> 12,
       r_rich |-> 14] }

\* three_segment_fee_rate as a fraction; the boundaries w1 and w2 and the
\* effective wealth are compared times 100
three_segment_fee_rate(effective_wealth, max_wealth, cfg) ==
    LET w1 == max_wealth * cfg.w1
        w2 == max_wealth * cfg.w2
        ew == effective_wealth * 100
    IN  IF max_wealth <= 0 THEN Frac(cfg.r_poor, 100)
        ELSE IF ew < w1 THEN Frac(cfg.r_poor, 100)
        ELSE IF ew < w2
        THEN Frac(cfg.r_mid_start * (w2 - w1)
                  + (ew - w1) * (cfg.r_mid_end - cfg.r_mid_start),
                  100 * (w2 - w1))
        ELSE Frac(cfg.r_rich, 100)

ThreeSegmentCall ==
    /\ fn_obs = NoCall
    /\ \E cfg \in ThreeSegConfigs, max_wealth \in {0, 1000},
          effective_wealth \in {0, 99, 100, 150, 199, 200, 400, 599, 600, 699,
                                700, 799, 800, 2000} :
           fn_obs' = [op |-> "three_segment_fee_rate", cfg |-> cfg,
                      max_wealth |-> max_wealth,
                      effective_wealth |-> effective_wealth,
                      result |-> three_segment_fee_rate(effective_wealth,
                                                        max_wealth, cfg)]
    /\ UNCHANGED <<ref_vars, acct_vars, agents_vars, sim_vars, ledger_vars, conc_vars, gu_vars>>

\* FeeConfig.rate_bps(effective_wealth): the bracket of the rate returned
RateBpsCall ==
    /\ fn_obs = NoCall
    /\ \E cfg \in FeeConfigChoices, effective_wealth \in {0, 39, 40, 41, 500} :
           fn_obs' = [op |-> "rate_bps", cfg |-> cfg,
                      effective_wealth |-> effective_wealth,
                      result |-> RateBpsBracket(cfg, effective_wealth * TAG_SCALE)]
    /\ UNCHANGED <<ref_vars, acct_vars, agents_vars, sim_vars, ledger_vars, conc_vars, gu_vars>>

ApplyDecayCall ==
    /\ fn_obs = NoCall
    /\ \E tags \in {[c \in {0} |-> w] : w \in FnWeightChoices}
                     \cup {t \in FnTagChoices : 0 \in DOMAIN t},
          decay_rate \in FnDecayChoices :
           /\ fn_obs' = [op |-> "apply_decay", tags |-> tags, weight |-> tags[0],
                         decay_rate |-> decay_rate,
                         result |-> apply_decay(tags, decay_rate)]
    /\ UNCHANGED <<ref_vars, acct_vars, agents_vars, sim_vars, ledger_vars, conc_vars, gu_vars>>

MixTagsCall ==
    /\ fn_obs = NoCall
    /\ \E self_tags \in FnTagChoices, incoming_tags \in FnTagChoices,
          self_value \in FnValueChoices, incoming_value \in FnValueChoices :
           /\ fn_obs' = [op |-> "mix_tags", self_tags |-> self_tags,
                         self_value |-> self_value, incoming_tags |-> incoming_tags,
                         incoming_value |-> incoming_value,
                         result |-> mix_tags(self_tags, self_value,
                                             incoming_tags, incoming_value)]
    /\ UNCHANGED <<ref_vars, acct_vars, agents_vars, sim_vars, ledger_vars, conc_vars, gu_vars>>

(***************************************************************************)
(* gini_account_model.ClusterWealth called method by method                *)
(***************************************************************************)

MaxLedgerCalls == 3

\* cluster ids (created, not yet created, never created) and signed deltas
LedgerIdChoices == {-1, 0, 1, 5}
LedgerDeltaChoices == {-7, -1, 0, 3, 10}

LedgerInit ==
    /\ ledger = ClusterWealthInit
    /\ ledger_obs = [calls |-> 0, last |-> NoCall]

LedgerNewCluster ==
    /\ ledger_obs.calls < MaxLedgerCalls
    /\ ledger' = ClusterWealthNewCluster(ledger)
    /\ ledger_obs' = [calls |-> ledger_obs.calls + 1,
                      last |-> [op |-> "new_cluster", before |-> ledger,
                                result |-> ledger.next_cluster]]
    /\ UNCHANGED <<ref_vars, acct_vars, agents_vars, sim_vars, fn_vars, conc_vars, gu_vars>>

LedgerApplyDelta ==
    /\ ledger_obs.calls < MaxLedgerCalls
    /\ \E cluster_id \in LedgerIdChoices, delta \in LedgerDeltaChoices :
          /\ ledger' = ClusterWealthApplyDelta(ledger, cluster_id, delta)
          /\ ledger_obs' = [calls |-> ledger_obs.calls + 1,
                            last |-> [op |-> "apply_delta", before |-> ledger,
                                      cluster_id |-> cluster_id, delta |-> delta]]
    /\ UNCHANGED <<ref_vars, acct_vars, agents_vars, sim_vars, fn_vars, conc_vars, gu_vars>>

LedgerGet ==
    /\ ledger_obs.calls < MaxLedgerCalls
    /\ \E cluster_id \in LedgerIdChoices :
          /\ ledger' = ledger
          /\ ledger_obs' = [calls |-> ledger_obs.calls + 1,
                            last |-> [op |-> "get", before |-> ledger,
                                      cluster_id |-> cluster_id,
                                      result |-> ClusterWealthGet(ledger, cluster_id)]]
    /\ UNCHANGED <<ref_vars, acct_vars, agents_vars, sim_vars, fn_vars, conc_vars, gu_vars>>

\* ---------------------------------------------------------------------
\* gini_account_model.py: execute_transfer run by several invocations at
\* once over the same accounts and ledger, one statement at a time.  The
\* function takes no lock; each invocation keeps its arguments and locals in
\* its frame, and a step runs the statement its pc stands at.
\* ---------------------------------------------------------------------

\* the two invocations running at once
Invocations == 1..2

\* every frame before its call: no arguments yet, locals unset
ConcIdle ==
    invocations =
        [frames |-> [p \in Invocations |->
                        [pc |-> "call", sender |-> 0, receiver |-> 0, amount |-> 0,
                         decay_rate |-> 0, fee |-> 0, net_amount |-> 0,
                         transferred_tags |-> EmptyTags,
                         receiver_balance_before |-> 0, success |-> FALSE]],
         start |-> NoCall]

\* the call, and line 147-148: the guard on the sender's balance
ConcCheck(p) ==
    /\ invocations.frames[p].pc = "call"
    /\ \E s \in AccountIds, r \in AccountIds, amount \in {0, 40, 300},
          decay_rate \in {50000} :
          invocations' =
              [frames |-> [invocations.frames EXCEPT
                   ![p] = [@ EXCEPT
                       !.sender = s, !.receiver = r, !.amount = amount,
                       !.decay_rate = decay_rate,
                       !.pc = IF TransferRejected(accounts[s].balance, amount)
                              THEN "returned" ELSE "fee"]],
               start |-> IF invocations.start = NoCall
                         THEN [op |-> "start", accounts |-> accounts,
                               cluster_wealth |-> cluster_wealth]
                         ELSE invocations.start]
    /\ UNCHANGED <<acct_vars, ref_vars, agents_vars, sim_vars, fn_vars, ledger_vars, gu_vars>>

\* line 151-153: fee_rate, fee and net_amount from the sender's tags and the
\* ledger as they are now
ConcFee(p) ==
    LET f == invocations.frames[p] IN
    /\ f.pc = "fee"
    /\ \E fee \in FeeChoices(accounts[f.sender], cluster_wealth, fee_config,
                             f.amount) :
          invocations' = [invocations EXCEPT
              !.frames[p] = [@ EXCEPT !.fee = fee,
                                      !.net_amount = NetAmount(f.amount, fee),
                                      !.pc = "debit"]]
    /\ UNCHANGED <<acct_vars, ref_vars, agents_vars, sim_vars, fn_vars, ledger_vars, gu_vars>>

\* line 156: sender.balance -= amount
ConcDebit(p) ==
    LET f == invocations.frames[p] IN
    /\ f.pc = "debit"
    /\ accounts' = [accounts EXCEPT ![f.sender].balance = @ - f.amount]
    /\ invocations' = [invocations EXCEPT !.frames[p].pc = "decay"]
    /\ UNCHANGED <<cluster_wealth, fee_config, acct_obs,
                   ref_vars, agents_vars, sim_vars, fn_vars, ledger_vars, gu_vars>>

\* line 159: transferred_tags = apply_decay(sender.tags.copy(), decay_rate)
ConcDecay(p) ==
    LET f == invocations.frames[p] IN
    /\ f.pc = "decay"
    /\ invocations' = [invocations EXCEPT
          !.frames[p] = [@ EXCEPT
              !.transferred_tags = apply_decay(accounts[f.sender].tags,
                                               f.decay_rate),
              !.pc = "leaving"]]
    /\ UNCHANGED <<acct_vars, ref_vars, agents_vars, sim_vars, fn_vars, ledger_vars, gu_vars>>

\* line 163-165: the loop taking the mass leaving the sender off the ledger
ConcLeaving(p) ==
    LET f == invocations.frames[p] IN
    /\ f.pc = "leaving"
    /\ cluster_wealth' = ApplyDeltas(cluster_wealth, accounts[f.sender].tags,
                                     f.amount, -1)
    /\ invocations' = [invocations EXCEPT !.frames[p].pc = "arriving"]
    /\ UNCHANGED <<accounts, fee_config, acct_obs,
                   ref_vars, agents_vars, sim_vars, fn_vars, ledger_vars, gu_vars>>

\* line 168-170: the loop adding the mass arriving at the receiver
ConcArriving(p) ==
    LET f == invocations.frames[p] IN
    /\ f.pc = "arriving"
    /\ cluster_wealth' = ApplyDeltas(cluster_wealth, f.transferred_tags,
                                     f.net_amount, 1)
    /\ invocations' = [invocations EXCEPT !.frames[p].pc = "read_receiver"]
    /\ UNCHANGED <<accounts, fee_config, acct_obs,
                   ref_vars, agents_vars, sim_vars, fn_vars, ledger_vars, gu_vars>>

\* line 173: receiver_balance_before = receiver.balance
ConcReadReceiver(p) ==
    LET f == invocations.frames[p] IN
    /\ f.pc = "read_receiver"
    /\ invocations' = [invocations EXCEPT
          !.frames[p] = [@ EXCEPT
              !.receiver_balance_before = accounts[f.receiver].balance,
              !.pc = "mix"]]
    /\ UNCHANGED <<acct_vars, ref_vars, agents_vars, sim_vars, fn_vars, ledger_vars, gu_vars>>

\* line 174-175: receiver.tags = mix_tags(...)
ConcMix(p) ==
    LET f == invocations.frames[p] IN
    /\ f.pc = "mix"
    /\ accounts' = [accounts EXCEPT
          ![f.receiver].tags = mix_tags(@, f.receiver_balance_before,
                                        f.transferred_tags, f.net_amount)]
    /\ invocations' = [invocations EXCEPT !.frames[p].pc = "credit"]
    /\ UNCHANGED <<cluster_wealth, fee_config, acct_obs,
                   ref_vars, agents_vars, sim_vars, fn_vars, ledger_vars, gu_vars>>

\* line 176-178: receiver.balance += net_amount; return True, fee
ConcCredit(p) ==
    LET f == invocations.frames[p] IN
    /\ f.pc = "credit"
    /\ accounts' = [accounts EXCEPT ![f.receiver].balance = @ + f.net_amount]
    /\ invocations' = [invocations EXCEPT
          !.frames[p] = [@ EXCEPT !.success = TRUE, !.pc = "returned"]]
    /\ UNCHANGED <<cluster_wealth, fee_config, acct_obs,
                   ref_vars, agents_vars, sim_vars, fn_vars, ledger_vars, gu_vars>>

\* ---------------------------------------------------------------------
\* gini_utxo_model.py: UTXOSet (create_utxo, spend_utxo, by_owner index),
\* blend_tags, apply_decay and transfer.  Values are floats in the source;
\* the model keeps them whole, and runs main's flat fee configuration with
\* amounts whose fee amount * rate / 10_000 is whole, so every value the
\* source computes is exact.  With a flat curve rate_bps returns r_min_bps
\* whatever compute_effective_wealth gives, so it is not modelled.
\* ---------------------------------------------------------------------

NumUtxoAgents == 2    \* agents made by create_initial_state
MaxUtxoCalls == 3     \* calls per behaviour

UTXO_TAG_PRUNE_THRESHOLD == 1000
DEFAULT_DECAY_RATE == 50000
FLAT_BPS == 500

UtxoAgentIds == 0..(NumUtxoAgents - 1)

\* UTXOSet.create_utxo: the set after it; the id given is us.next_id
create_utxo(us, value, tags, owner) ==
    [us EXCEPT
        !.utxos = [i \in DOMAIN us.utxos \cup {us.next_id} |->
                      IF i = us.next_id
                      THEN [value |-> value, tags |-> tags, owner |-> owner]
                      ELSE us.utxos[i]],
        !.by_owner = [o \in DOMAIN us.by_owner \cup {owner} |->
                         IF o = owner
                         THEN Append(IF owner \in DOMAIN us.by_owner
                                     THEN us.by_owner[owner] ELSE <<>>,
                                     us.next_id)
                         ELSE us.by_owner[o]],
        !.next_id = us.next_id + 1]

\* mutant: the UTXO leaves utxos but stays listed under its owner
spend_utxo_keeps_index(us, utxo_id) ==
    IF utxo_id \notin DOMAIN us.utxos THEN us
    ELSE [us EXCEPT !.utxos = [i \in DOMAIN us.utxos \ {utxo_id} |-> us.utxos[i]]]

\* UTXOSet.spend_utxo
spend_utxo(us, utxo_id) ==
    IF utxo_id \notin DOMAIN us.utxos THEN us
    ELSE LET owner == us.utxos[utxo_id].owner
         IN  [us EXCEPT
                 !.utxos = [i \in DOMAIN us.utxos \ {utxo_id} |-> us.utxos[i]],
                 !.by_owner = [o \in DOMAIN us.by_owner |->
                                  IF o = owner
                                  THEN SelectSeq(us.by_owner[o],
                                                 LAMBDA u : u # utxo_id)
                                  ELSE us.by_owner[o]]]

\* UTXOSet.get_owner_utxos, as the sequence of their ids
get_owner_utxos(us, owner) ==
    IF owner \in DOMAIN us.by_owner
    THEN SelectSeq(us.by_owner[owner], LAMBDA uid : uid \in DOMAIN us.utxos)
    ELSE <<>>

RECURSIVE SumUtxoValues(_, _)
\* sum(u.value for u in ...) over a sequence of ids
SumUtxoValues(us, ids) ==
    IF ids = <<>> THEN 0
    ELSE us.utxos[Head(ids)].value + SumUtxoValues(us, Tail(ids))

\* UTXOSet.get_owner_balance
get_owner_balance(us, owner) == SumUtxoValues(us, get_owner_utxos(us, owner))

RECURSIVE LargestFirst(_, _)
\* sorted(..., key=lambda u: -u.value): a stable sort, equal values keep
\* their order
LargestFirst(us, ids) ==
    IF ids = <<>> THEN <<>>
    ELSE LET n == Len(ids)
             x == ids[n]
             rest == LargestFirst(us, SubSeq(ids, 1, n - 1))
             k == Cardinality({i \in 1..Len(rest) :
                                  us.utxos[rest[i]].value >= us.utxos[x].value})
         IN  SubSeq(rest, 1, k) \o <<x>> \o SubSeq(rest, k + 1, Len(rest))

RECURSIVE TakeUntil(_, _, _, _)
\* the selection loops of transfer: append the next UTXO, stop once the
\* selected value reaches target
TakeUntil(us, selected, candidates, target) ==
    IF candidates = <<>> THEN selected
    ELSE LET next == Append(selected, Head(candidates))
         IN  IF SumUtxoValues(us, next) >= target THEN next
             ELSE TakeUntil(us, next, Tail(candidates), target)

RECURSIVE WeightedTagSum(_, _, _)
\* sum of value * tags.get(cluster_id, 0) over a sequence of ids
WeightedTagSum(us, ids, c) ==
    IF ids = <<>> THEN 0
    ELSE us.utxos[Head(ids)].value * TagGet(us.utxos[Head(ids)].tags, c)
         + WeightedTagSum(us, Tail(ids), c)

\* blend_tags over the selected UTXOs: the value-weighted average of each
\* cluster's weight, truncated by int(), entries under the threshold dropped
blend_tags(us, ids) ==
    LET total_value == SumUtxoValues(us, ids)
        clusters == UNION {DOMAIN us.utxos[ids[i]].tags : i \in 1..Len(ids)}
        int_weight(c) == WeightedTagSum(us, ids, c) \div total_value
    IN  IF total_value = 0 THEN EmptyTags
        ELSE [c \in {d \in clusters : int_weight(d) >= UTXO_TAG_PRUNE_THRESHOLD}
                 |-> int_weight(c)]

\* gini_utxo_model.apply_decay
utxo_apply_decay(tags, decay_rate) ==
    LET decayed(c) == tags[c] - MulDivMod(tags[c], decay_rate, TAG_SCALE)[1]
    IN  [c \in {d \in DOMAIN tags : decayed(d) >= UTXO_TAG_PRUNE_THRESHOLD}
            |-> decayed(c)]

RECURSIVE SpendSelected(_, _)
\* for utxo in selected_utxos: spend_utxo(utxo.id)
SpendSelected(us, ids) ==
    IF ids = <<>> THEN us
    ELSE SpendSelected(spend_utxo(us, Head(ids)), Tail(ids))

\* mutant: the change output decayed once more
ChangeTagsDecayedAgain(decayed_tags, decay_rate) ==
    utxo_apply_decay(decayed_tags, decay_rate)

\* the tags handed to the change output: decayed_tags.copy()
ChangeTags(decayed_tags, decay_rate) == decayed_tags

\* transfer(state, sender_id, receiver_id, amount, rng)
utxo_transfer(st, sender_id, receiver_id, amount) ==
    LET us == st.utxo_set
        sender_utxos == get_owner_utxos(us, sender_id)
        sender_balance == SumUtxoValues(us, sender_utxos)
        failed == [success |-> FALSE, state |-> st, selected |-> <<>>,
                   fee |-> 0, change |-> 0]
    IN  IF sender_balance < amount \/ amount <= 0 THEN failed
        ELSE
        LET estimated_total == amount + (amount * st.fee_config.r_max_bps) \div 10000
            first == TakeUntil(us, <<>>, LargestFirst(us, sender_utxos),
                               estimated_total)
            fee == (amount * st.fee_config.r_min_bps) \div 10000
            total_needed == amount + fee
            remaining == SelectSeq(sender_utxos,
                             LAMBDA u : \A i \in 1..Len(first) : first[i] # u)
            selected == IF SumUtxoValues(us, first) < total_needed
                        THEN TakeUntil(us, first, LargestFirst(us, remaining),
                                       total_needed)
                        ELSE first
            selected_value == SumUtxoValues(us, selected)
        IN  IF first = <<>> \/ selected_value < total_needed THEN failed
            ELSE
            LET decayed_tags == utxo_apply_decay(blend_tags(us, selected),
                                                 st.decay_rate)
                spent == SpendSelected(us, selected)
                paid == create_utxo(spent, amount, decayed_tags, receiver_id)
                change == selected_value - total_needed
                \* change > 0.01 on whole values
                after == IF change >= 1
                         THEN create_utxo(paid, change,
                                          ChangeTags(decayed_tags, st.decay_rate),
                                          sender_id)
                         ELSE paid
            IN  [success |-> TRUE,
                 state |-> [st EXCEPT !.utxo_set = after,
                                      !.total_fees = @ + fee],
                 selected |-> selected, fee |-> fee, change |-> change]

RECURSIVE CreateInitialUtxos(_, _, _)
\* the loop of create_initial_state: agent i gets a new cluster and one UTXO
\* of its wealth tagged 100% to it
CreateInitialUtxos(us, wealths, i) ==
    IF i = NumUtxoAgents THEN us
    ELSE CreateInitialUtxos(
             create_utxo([us EXCEPT !.next_cluster = @ + 1], wealths[i],
                         [c \in {us.next_cluster} |-> TAG_SCALE], i),
             wealths, i + 1)

\* UTXOSet.__init__
UtxoModelSetInit ==
    [utxos |-> [i \in {} |-> 0], by_owner |-> [o \in {} |-> <<>>],
     next_id |-> 0, next_cluster |-> 0]

\* create_initial_state under a flat fee configuration, agents in the
\* order of their wealth
UtxoModelInit ==
    /\ \E wealths \in [UtxoAgentIds -> {100, 500}] :
          /\ \A i, j \in UtxoAgentIds : i <= j => wealths[i] <= wealths[j]
          /\ utxo_model =
                [utxo_set |-> CreateInitialUtxos(UtxoModelSetInit, wealths, 0),
                 fee_config |-> [r_min_bps |-> FLAT_BPS, r_max_bps |-> FLAT_BPS],
                 total_fees |-> 0, decay_rate |-> DEFAULT_DECAY_RATE]
    /\ utxo_model_obs = [calls |-> 0, spent |-> {}, last |-> NoCall]

\* a call of UTXOSet.create_utxo
UtxoCreate ==
    /\ utxo_model_obs.calls < MaxUtxoCalls
    /\ \E owner \in UtxoAgentIds, value \in {40},
          tags \in {EmptyTags, [c \in {0} |-> 400000]} :
          /\ utxo_model' = [utxo_model EXCEPT
                !.utxo_set = create_utxo(@, value, tags, owner)]
          /\ utxo_model_obs' = [utxo_model_obs EXCEPT
                !.calls = @ + 1,
                !.last = [op |-> "create_utxo", before |-> utxo_model]]
    /\ UNCHANGED <<ref_vars, acct_vars, agents_vars, sim_vars, fn_vars,
                   ledger_vars, conc_vars>>

\* a call of UTXOSet.spend_utxo, of a live, a spent or a never given id
UtxoSpend ==
    /\ utxo_model_obs.calls < MaxUtxoCalls
    /\ \E utxo_id \in 0..utxo_model.utxo_set.next_id :
          /\ utxo_model' = [utxo_model EXCEPT
                !.utxo_set = spend_utxo(@, utxo_id)]
          /\ utxo_model_obs' = [utxo_model_obs EXCEPT
                !.calls = @ + 1,
                !.spent = IF utxo_id \in DOMAIN utxo_model.utxo_set.utxos
                          THEN @ \cup {utxo_id} ELSE @,
                !.last = [op |-> "spend_utxo", before |-> utxo_model]]
    /\ UNCHANGED <<ref_vars, acct_vars, agents_vars, sim_vars, fn_vars,
                   ledger_vars, conc_vars>>

\* a call of transfer
UtxoTransfer ==
    /\ utxo_model_obs.calls < MaxUtxoCalls
    /\ \E sender_id \in UtxoAgentIds, receiver_id \in UtxoAgentIds,
          amount \in {-20, 0, 20, 60, 400} :
          LET res == utxo_transfer(utxo_model, sender_id, receiver_id, amount)
          IN  /\ utxo_model' = res.state
              /\ utxo_model_obs' = [utxo_model_obs EXCEPT
                    !.calls = @ + 1,
                    !.spent = @ \cup {res.selected[i] : i \in 1..Len(res.selected)},
                    !.last = [op |-> "transfer", before |-> utxo_model,
                              sender_id |-> sender_id,
                              receiver_id |-> receiver_id, amount |-> amount,
                              success |-> res.success, selected |-> res.selected,
                              fee |-> res.fee, change |-> res.change]]
    /\ UNCHANGED <<ref_vars, acct_vars, agents_vars, sim_vars, fn_vars,
                   ledger_vars, conc_vars>>

\* the variables of an engine that a specification does not run
RefIdle == utxo_set = UTXOSetInit /\ ref_obs = [last |-> NoCall]
AccountIdle ==
    /\ accounts = <<>>
    /\ cluster_wealth = ClusterWealthInit
    /\ fee_config = [r_min_bps |-> 0, r_max_bps |-> 0, w_mid |-> 0, steepness |-> 0]
    /\ acct_obs = [last |-> NoCall]

AgentsIdle ==
    /\ state = [agents |-> <<>>, total_fees |-> 0]
    /\ agents_obs = [last |-> NoCall]

SimIdle == sim = SimulationInit /\ sim_obs = [last |-> NoCall]

FnIdle == fn_obs = NoCall

LedgerIdle == ledger = ClusterWealthInit /\ ledger_obs = [last |-> NoCall]

UtxoModelIdle ==
    /\ utxo_model = [utxo_set |-> UtxoModelSetInit]
    /\ utxo_model_obs = [last |-> NoCall]

Init == RefInit /\ AccountIdle /\ AgentsIdle /\ SimIdle /\ FnIdle /\ LedgerIdle /\ ConcIdle
    /\ UtxoModelIdle

Next == Mint \/ Transfer

Spec == Init /\ [][Next]_vars

InitAccount == AccountInit /\ RefIdle /\ AgentsIdle /\ SimIdle /\ FnIdle /\ LedgerIdle /\ ConcIdle
    /\ UtxoModelIdle

NextAccount == ExecuteTransfer

SpecAccount == InitAccount /\ [][NextAccount]_vars

\* the account model followed for one more transfer, from small balances and
\* with small amounts, so that the floors of execute_transfer's mass
\* arithmetic add up
MaxRoundTransfers == 3
RoundBalanceChoices == {0, 20}
RoundAmountChoices == {10, 20}

\* create_accounts with balances from RoundBalanceChoices
InitRounds ==
    /\ \E balances \in [AccountIds -> RoundBalanceChoices] :
          /\ \A i, j \in AccountIds : i <= j => balances[i] <= balances[j]
          /\ accounts = [i \in AccountIds |->
                            [balance |-> balances[i],
                             tags |-> [c \in {i} |-> TAG_SCALE]]]
          /\ cluster_wealth = CreateLedger(ClusterWealthInit, balances, 0)
          /\ acct_obs = [total_fees |-> 0,
                         initial_supply |-> SumSet(balances, AccountIds),
                         calls |-> 0, last |-> NoCall]
    /\ fee_config \in FeeConfigChoices
    /\ RefIdle /\ AgentsIdle /\ SimIdle /\ FnIdle /\ LedgerIdle /\ ConcIdle
    /\ UtxoModelIdle

\* run_round's use of execute_transfer with amounts from RoundAmountChoices
\* and SimState's decay_rate of 5% per hop
RoundTransfer ==
    /\ acct_obs.calls < MaxRoundTransfers
    /\ \E s \in AccountIds, r \in AccountIds, amount \in RoundAmountChoices,
          decay_rate \in {50000} :
          \E fee \in FeeChoices(accounts[s], cluster_wealth, fee_config, amount) :
             LET res == execute_transfer(accounts, cluster_wealth, s, r, amount,
                                         decay_rate, fee)
             IN  /\ accounts' = res.accounts
                 /\ cluster_wealth' = res.cluster_wealth
                 /\ acct_obs' = [acct_obs EXCEPT
                        !.total_fees = @ + (IF res.success THEN res.fee ELSE 0),
                        !.calls = @ + 1,
                        !.last = [op |-> "execute_transfer",
                                  sender |-> s, receiver |-> r,
                                  amount |-> amount, decay_rate |-> decay_rate,
                                  accounts_before |-> accounts,
                                  cluster_wealth_before |-> cluster_wealth,
                                  success |-> res.success, fee |-> res.fee]]
    /\ UNCHANGED <<fee_config, ref_vars, agents_vars, sim_vars, fn_vars, ledger_vars, conc_vars, gu_vars>>

NextRounds == RoundTransfer

SpecRounds == InitRounds /\ [][NextRounds]_vars

InitAgents == AgentsInit /\ RefIdle /\ AccountIdle /\ SimIdle /\ FnIdle /\ LedgerIdle /\ ConcIdle
    /\ UtxoModelIdle

NextAgents == AgentTransfer

SpecAgents == InitAgents /\ [][NextAgents]_vars

InitSim == SimInit /\ RefIdle /\ AccountIdle /\ AgentsIdle /\ FnIdle /\ LedgerIdle /\ ConcIdle
    /\ UtxoModelIdle

NextSim == SimulationMint \/ SimulationTransfer

SpecSim == InitSim /\ [][NextSim]_vars

InitFn == FnIdle /\ RefIdle /\ AccountIdle /\ AgentsIdle /\ SimIdle /\ LedgerIdle /\ ConcIdle
    /\ UtxoModelIdle

NextFn ==
    \/ ComputeFeeRateCall
    \/ ApplyDecayCall
    \/ MixTagsCall
    \/ RateBpsCall
    \/ ThreeSegmentCall

SpecFn == InitFn /\ [][NextFn]_vars

InitLedger == LedgerInit /\ RefIdle /\ AccountIdle /\ AgentsIdle /\ SimIdle /\ FnIdle /\ ConcIdle
    /\ UtxoModelIdle

NextLedger == LedgerNewCluster \/ LedgerApplyDelta \/ LedgerGet

SpecLedger == InitLedger /\ [][NextLedger]_vars

InitConc ==
    AccountInit /\ ConcIdle /\ RefIdle /\ AgentsIdle /\ SimIdle /\ FnIdle /\ LedgerIdle
    /\ UtxoModelIdle

NextConc ==
    \E p \in Invocations :
        \/ ConcCheck(p)
        \/ ConcFee(p)
        \/ ConcDebit(p)
        \/ ConcDecay(p)
        \/ ConcLeaving(p)
        \/ ConcArriving(p)
        \/ ConcReadReceiver(p)
        \/ ConcMix(p)
        \/ ConcCredit(p)

SpecConc == InitConc /\ [][NextConc]_vars

InitUtxoModel ==
    UtxoModelInit /\ RefIdle /\ AccountIdle /\ AgentsIdle /\ SimIdle /\ FnIdle
    /\ LedgerIdle /\ ConcIdle

NextUtxoModel == UtxoCreate \/ UtxoSpend \/ UtxoTransfer

SpecUtxoModel == InitUtxoModel /\ [][NextUtxoModel]_vars

(***************************************************************************)
(* Properties of provenance_reference.py (specification Spec)              *)
(***************************************************************************)

Last == ref_obs.last

LiveValue(us) == SumSet([i \in DOMAIN us.utxos |-> us.utxos[i].value], DOMAIN us.utxos)

\* the UTXOs the last transfer named as inputs, as they were before the call
LastInputs == [k \in 1..Len(Last.input_ids) |-> Last.before.utxos[Last.input_ids[k]]]

\* q = floor(sum(value_i * source_wealth_i) / sum(value_i)), stated without
\* the division: 0 <= sum(value_i * source_wealth_i) - q * T < T
IsFloorOfWeightedMean(inputs, q) ==
    LET T == TotalValue(inputs)
        qr == [k \in 1..Len(inputs) |->
                  MulDivMod(inputs[k].value, inputs[k].source_wealth, T)]
        d == SumSeq([k \in 1..Len(inputs) |-> qr[k][1]]) - q
        r == SumSeq([k \in 1..Len(inputs) |-> qr[k][2]])
    IN  /\ d <= 0
        /\ d > -Len(inputs)
        /\ 0 <= d * T + r
        /\ d * T + r < T

\* C2: the value of the live UTXOs plus the fees returned by successful
\* transfers equals the value the caller minted.
RefConservation == LiveValue(utxo_set) + ref_obs.fees = ref_obs.minted

\* C4: after a successful transfer every output carries the truncated
\* value-weighted mean of the spent inputs' source_wealth, whatever its owner
\* and value, the outputs are live, and the fee is the one that mean gives.
BlendOnCombine ==
    (Last.op = "transfer" /\ Last.status = "ok") =>
        /\ Len(Last.new_utxos) = Len(Last.outputs)
        /\ \A k \in 1..Len(Last.new_utxos) :
              LET u == Last.new_utxos[k]
              IN  /\ IsFloorOfWeightedMean(LastInputs, u.source_wealth)
                  /\ u.owner = Last.outputs[k].owner
                  /\ u.value = Last.outputs[k].value
                  /\ u.id \in DOMAIN utxo_set.utxos
                  /\ utxo_set.utxos[u.id] = u
                  /\ Last.fee = ComputeFee(TotalOutputValue(Last.outputs),
                                           u.source_wealth, Last.max_wealth)
        /\ Last.outputs = <<>> => Last.fee = 0

\* a successful transfer blending two inputs of different source_wealth into
\* several outputs of different owners, the blend differing from both inputs
BlendOnCombineWitness ==
    /\ Last.op = "transfer"
    /\ Last.status = "ok"
    /\ Len(Last.input_ids) = 2
    /\ Len(Last.new_utxos) >= 2
    /\ Last.new_utxos[1].owner # Last.new_utxos[2].owner
    /\ Last.new_utxos[1].source_wealth # LastInputs[1].source_wealth
    /\ Last.new_utxos[1].source_wealth # LastInputs[2].source_wealth
    /\ Last.fee > 0

\* the inputs of test_blend_on_combine, in either order
IsBlendCase ==
    /\ Last.op = "transfer"
    /\ Len(Last.input_ids) = 2
    /\ \A k \in 1..2 : Last.input_ids[k] \in DOMAIN Last.before.utxos
    /\ \E a, b \in 1..2 :
          /\ a # b
          /\ LastInputs[a].value = WhalePart
          /\ LastInputs[a].source_wealth = Whale
          /\ LastInputs[b].value = Poor
          /\ LastInputs[b].source_wealth = Poor

SplitYieldsTenOutputs ==
    ( /\ Last.op = "transfer"
      /\ Last.before = UTXOSetMint(UTXOSetInit, "whale", Whale, Whale)
      /\ Last.input_ids = <<0>>
      /\ Last.outputs = Rep(10, [owner |-> "whale", value |-> WhalePart])
      /\ Last.max_wealth = Whale )
    => /\ Last.status = "ok"
       /\ Len(Last.new_utxos) = 10
       /\ \A k \in 1..Len(Last.new_utxos) :
             /\ Last.new_utxos[k].source_wealth = Whale
             /\ Last.new_utxos[k].id \in DOMAIN utxo_set.utxos

\* C7: a transfer returns the same success flag and fee, and gives its
\* outputs the same source_wealth, as the transfer of the same inputs to a
\* single output of the full amount.
SybilResistance ==
    (Last.op = "transfer" /\ Len(Last.outputs) >= 1) =>
        LET single == transfer(Last.before, Last.input_ids,
                               <<[owner |-> "recipient",
                                  value |-> TotalOutputValue(Last.outputs)]>>,
                               Last.max_wealth)
        IN  /\ single.status = Last.status
            /\ single.fee = Last.fee
            /\ Last.status = "ok" =>
                  \A k \in 1..Len(Last.new_utxos) :
                      Last.new_utxos[k].source_wealth
                          = single.new_utxos[1].source_wealth

\* a successful payment split across several distinct owners
SybilResistanceWitness ==
    /\ Last.op = "transfer"
    /\ Last.status = "ok"
    /\ Len(Last.outputs) >= 3
    /\ \A j, k \in 1..Len(Last.outputs) :
          j # k => Last.outputs[j].owner # Last.outputs[k].owner
    /\ Last.fee > 0

\* C10: transfer always returns, never raises, and leaves the UTXO set as it
\* was whenever it does not succeed.
ErrorsAreReturned ==
    Last.op = "transfer" =>
        /\ Last.status \in {"ok", "fail"}
        /\ Last.status # "ok" => utxo_set = Last.before

(***************************************************************************)
(* Properties of gini_account_model.py (specification SpecAccount)         *)
(***************************************************************************)

ALast == acct_obs.last

TotalBalance(accts) == SumSet([i \in DOMAIN accts |-> accts[i].balance], DOMAIN accts)

\* C1: the balances of all accounts plus the fees returned by successful
\* transfers equal the initial total supply.
AccountConservation ==
    TotalBalance(accounts) + acct_obs.total_fees = acct_obs.initial_supply

\* a self-transfer that paid a fee, after an earlier transfer that paid one
AccountConservationWitness ==
    /\ ALast.op = "execute_transfer"
    /\ ALast.success
    /\ ALast.sender = ALast.receiver
    /\ ALast.fee > 0
    /\ acct_obs.total_fees > ALast.fee

\* C9: execute_transfer returns (False, 0) exactly when amount <= 0 or the
\* sender's balance is below amount, and then balances, tag vectors and the
\* cluster ledger are as before the call.
FailureAtomicity ==
    ALast.op = "execute_transfer" =>
        /\ ~ALast.success <=>
              (ALast.amount <= 0
               \/ ALast.accounts_before[ALast.sender].balance < ALast.amount)
        /\ ~ALast.success =>
              /\ ALast.fee = 0
              /\ accounts = ALast.accounts_before
              /\ cluster_wealth = ALast.cluster_wealth_before

\* a transfer rejected for lack of funds, on accounts an earlier transfer
\* has already changed
FailureAtomicityWitness ==
    /\ ALast.op = "execute_transfer"
    /\ ~ALast.success
    /\ ALast.amount > 0
    /\ ALast.accounts_before[ALast.sender].balance > 0
    /\ acct_obs.calls = 2
    /\ \E i \in AccountIds : DOMAIN accounts[i].tags # {i}

(***************************************************************************)
(* Properties of gini_10yr_model.py (specification SpecAgents)             *)
(***************************************************************************)

GLast == agents_obs.last

AgentBalances == TotalBalance(state.agents)

SLast == sim_obs.last

\* C8: a successful transfer of a positive amount whose receiver is the
\* sender leaves every resulting coin with a cluster_wealth no lower than
\* that of the spent inputs (here: no lower than the lowest cluster_wealth
\* among them).
SelfTransferKeepsAttribution ==
    (SLast.op = "transfer" /\ SLast.status = "ok" /\ SLast.amount > 0
        /\ SLast.sender = SLast.receiver) =>
        \A o \in 1 .. Len(SLast.outputs) :
            \E i \in 1 .. Len(SLast.inputs) :
                ~FracLess(SLast.outputs[o].cluster_wealth,
                          SLast.inputs[i].cluster_wealth)

\* C11: Simulation.transfer called with amount <= 0 returns False and leaves
\* utxos, agent_utxos and total_fees_burned as they were, and no live UTXO
\* has a non-positive value.
InvalidAmountRejected ==
    /\ (SLast.op = "transfer" /\ SLast.amount <= 0) =>
          (SLast.status = "fail" /\ sim = SLast.sim_before)
    /\ \A id \in DOMAIN sim.utxos : sim.utxos[id].value > 0

RECURSIVE SetToSeq(_)
\* the elements of a finite set of integers in ascending order
SetToSeq(S) ==
    IF S = {} THEN <<>>
    ELSE LET x == CHOOSE y \in S : \A z \in S : y <= z
         IN  <<x>> \o SetToSeq(S \ {x})

\* the fee Simulation.transfer computes when it spends the UTXOs ids
SimFeeFor(sm, ids, amount, fee_fn) ==
    LET rate == FeeRate(fee_fn, WeightedCluster(sm.utxos, ids),
                        MaxWealth(sm, NumSimAgents - 1))
    IN  TruncDiv(amount * rate.num, rate.den)

\* C12: Simulation.transfer with amount > 0 returns False only if no set of
\* the sender's UTXOs covers amount plus the fee computed for that set.
InsufficientOnlyWhenExhausted ==
    (SLast.op = "transfer" /\ SLast.amount > 0 /\ SLast.status = "fail") =>
        LET before == SLast.sim_before
            owned == {before.agent_utxos[SLast.sender][k] :
                         k \in 1 .. Len(before.agent_utxos[SLast.sender])}
        IN  \A S \in SUBSET owned :
               LET ids == SetToSeq(S)
                   value == SumValues(before.utxos, ids)
               IN  value > 0 =>
                      value < SLast.amount
                              + SimFeeFor(before, ids, SLast.amount, SLast.fee_fn)

(***************************************************************************)
(* Properties of the pure functions (specification SpecFn)                 *)
(***************************************************************************)

\* C13: for a fixed total output value and max_wealth and any r_max >= r_min,
\* a larger source wealth never gives a smaller fee
\* int(total * compute_fee_rate(source_wealth, max_wealth)).
MonotonicFee ==
    (fn_obs.op = "compute_fee_rate"
        /\ fn_obs.source_wealth_a > fn_obs.source_wealth_b) =>
        fn_obs.fee_a >= fn_obs.fee_b

\* the weight apply_decay returned for the one cluster it was given, 0 if
\* it pruned the entry
DecayOutput == TagGet(fn_obs.result, 0)

\* C14: for a weight w in [TAG_PRUNE_THRESHOLD, TAG_SCALE] and a decay_rate d
\* in [0, TAG_SCALE], the weight apply_decay outputs is at most
\* (1 - d / TAG_SCALE) * w, and strictly less than w whenever d > 0.
DecayBound ==
    fn_obs.op = "apply_decay" =>
        /\ DecayOutput
              <= MulDivMod(fn_obs.weight, TAG_SCALE - fn_obs.decay_rate, TAG_SCALE)[1]
        /\ fn_obs.decay_rate > 0 => DecayOutput < fn_obs.weight

(***************************************************************************)
(* Properties of ClusterWealth (specification SpecLedger)                  *)
(***************************************************************************)

LLast == ledger_obs.last

\* the wealth a ledger stores for an id, 0 for an id it has no entry for
StoredOrZero(cw, cluster_id) ==
    IF cluster_id \in DOMAIN cw.wealth THEN cw.wealth[cluster_id] ELSE 0

\* C15: every stored wealth is >= 0; apply_delta(id, delta) sets the wealth
\* of id to max(0, old + delta), old being 0 for an unknown id, and touches
\* no other entry; get(id) returns the stored wealth or 0 for an unknown id
\* and creates no entry.
LedgerNonNegative ==
    /\ \A c \in DOMAIN ledger.wealth : ledger.wealth[c] >= 0
    /\ LLast.op = "apply_delta" =>
          LET old == StoredOrZero(LLast.before, LLast.cluster_id)
          IN  /\ DOMAIN ledger.wealth
                    = DOMAIN LLast.before.wealth \cup {LLast.cluster_id}
              /\ ledger.wealth[LLast.cluster_id]
                    = (IF old + LLast.delta > 0 THEN old + LLast.delta ELSE 0)
              /\ \A c \in DOMAIN LLast.before.wealth :
                    c # LLast.cluster_id => ledger.wealth[c] = LLast.before.wealth[c]
              /\ ledger.next_cluster = LLast.before.next_cluster
    /\ LLast.op = "get" =>
          /\ LLast.result = StoredOrZero(LLast.before, LLast.cluster_id)
          /\ ledger = LLast.before

\* a negative delta larger than the stored wealth applied to a known
\* cluster that an earlier call had credited
LedgerNonNegativeWitness ==
    /\ LLast.op = "apply_delta"
    /\ LLast.cluster_id \in DOMAIN LLast.before.wealth
    /\ LLast.before.wealth[LLast.cluster_id] > 0
    /\ LLast.before.wealth[LLast.cluster_id] + LLast.delta < 0
    /\ ledger.wealth[LLast.cluster_id] = 0

(***************************************************************************)
(* Further properties of gini_account_model.py (specification SpecAccount) *)
(***************************************************************************)

\* C16: every entry of every account's tags has a weight between
\* TAG_PRUNE_THRESHOLD and TAG_SCALE, and an account's weights sum to at
\* most TAG_SCALE.
TagsWellFormed ==
    \A i \in DOMAIN accounts :
        /\ \A c \in DOMAIN accounts[i].tags :
              /\ accounts[i].tags[c] >= TAG_PRUNE_THRESHOLD
              /\ accounts[i].tags[c] <= TAG_SCALE
        /\ SumSet(accounts[i].tags, DOMAIN accounts[i].tags) <= TAG_SCALE

\* an account holding a mix of two clusters after a decayed transfer
TagsWellFormedWitness ==
    /\ ALast.op = "execute_transfer"
    /\ ALast.success
    /\ ALast.decay_rate < TAG_SCALE
    /\ \E i \in AccountIds :
          /\ Cardinality(DOMAIN accounts[i].tags) >= 2
          /\ \E c \in DOMAIN accounts[i].tags : accounts[i].tags[c] < TAG_SCALE \div 2

\* the entries of a tag vector that survive pruning
Pruned(tags) ==
    [c \in {d \in DOMAIN tags : tags[d] >= TAG_PRUNE_THRESHOLD} |-> tags[c]]

PruneInvariant(tags) == \A c \in DOMAIN tags : tags[c] >= TAG_PRUNE_THRESHOLD

\* C17 as stated: mix_tags with self_value = 0 returns incoming_tags less its
\* entries below TAG_PRUNE_THRESHOLD, and with incoming_value = 0 returns
\* self_tags (a vector with no entry below the threshold), whatever the other
\* value is, 0 included.
MixIdentityAsClaimed ==
    fn_obs.op = "mix_tags" =>
        /\ fn_obs.self_value = 0 => fn_obs.result = Pruned(fn_obs.incoming_tags)
        /\ (fn_obs.incoming_value = 0 /\ PruneInvariant(fn_obs.self_tags)) =>
              fn_obs.result = fn_obs.self_tags

\* C17: mix_tags with self_value = 0 and incoming_value > 0 returns
\* incoming_tags less its entries below TAG_PRUNE_THRESHOLD; with
\* incoming_value = 0 and self_value > 0 it returns self_tags (a vector with no
\* entry below the threshold); with both values 0 it returns the empty vector.
MixIdentity ==
    fn_obs.op = "mix_tags" =>
        /\ (fn_obs.self_value = 0 /\ fn_obs.incoming_value > 0) =>
              fn_obs.result = Pruned(fn_obs.incoming_tags)
        /\ (fn_obs.incoming_value = 0 /\ fn_obs.self_value > 0
              /\ PruneInvariant(fn_obs.self_tags)) =>
              fn_obs.result = fn_obs.self_tags
        /\ (fn_obs.self_value = 0 /\ fn_obs.incoming_value = 0) =>
              fn_obs.result = EmptyTags

\* a zero-value side mixed with a valued one whose vector loses an entry
MixIdentityWitness ==
    /\ fn_obs.op = "mix_tags"
    /\ fn_obs.self_value = 0
    /\ fn_obs.incoming_value > 0
    /\ fn_obs.self_tags # EmptyTags
    /\ fn_obs.result # EmptyTags
    /\ fn_obs.result # fn_obs.incoming_tags

\* C18: after create_accounts and before any transfer, the effective wealth
\* of every account (the max over its tags of weight / TAG_SCALE times the
\* cluster's ledger wealth) is exactly the balance minted to it.
MintRoundTrip ==
    acct_obs.calls = 0 =>
        \A i \in DOMAIN accounts :
            max_effective(accounts[i], cluster_wealth)
                = accounts[i].balance * TAG_SCALE

\* freshly created accounts of different positive balances
MintRoundTripWitness ==
    /\ acct_obs.calls = 0
    /\ DOMAIN accounts # {}
    /\ \A i \in DOMAIN accounts : accounts[i].balance > 0
    /\ \E i, j \in DOMAIN accounts : accounts[i].balance # accounts[j].balance
    /\ \A i \in DOMAIN accounts : DOMAIN accounts[i].tags = {i}

NoNegativeBalance == \A i \in DOMAIN accounts : accounts[i].balance >= 0

\* C19 as stated: after every successful execute_transfer the sender's
\* balance is lower by exactly amount and the receiver's higher by exactly
\* amount - fee, with 0 <= fee <= amount, and no balance is negative.
FeeFromAmountAsClaimed ==
    /\ NoNegativeBalance
    /\ (ALast.op = "execute_transfer" /\ ALast.success) =>
          /\ accounts[ALast.sender].balance
                = ALast.accounts_before[ALast.sender].balance - ALast.amount
          /\ accounts[ALast.receiver].balance
                = ALast.accounts_before[ALast.receiver].balance
                  + ALast.amount - ALast.fee
          /\ 0 <= ALast.fee
          /\ ALast.fee <= ALast.amount

\* C19: after every successful execute_transfer 0 <= fee <= amount; between
\* two different accounts the sender's balance is lower by exactly amount and
\* the receiver's higher by exactly amount - fee; from an account to itself
\* the balance is lower by exactly fee; no balance is ever negative.
FeeFromAmount ==
    /\ NoNegativeBalance
    /\ (ALast.op = "execute_transfer" /\ ALast.success) =>
          /\ 0 <= ALast.fee
          /\ ALast.fee <= ALast.amount
          /\ ALast.sender # ALast.receiver =>
                /\ accounts[ALast.sender].balance
                      = ALast.accounts_before[ALast.sender].balance - ALast.amount
                /\ accounts[ALast.receiver].balance
                      = ALast.accounts_before[ALast.receiver].balance
                        + ALast.amount - ALast.fee
          /\ ALast.sender = ALast.receiver =>
                accounts[ALast.sender].balance
                    = ALast.accounts_before[ALast.sender].balance - ALast.fee

\* a transfer between two accounts that emptied the sender and paid a fee
\* strictly between 0 and amount
FeeFromAmountWitness ==
    /\ ALast.op = "execute_transfer"
    /\ ALast.success
    /\ ALast.sender # ALast.receiver
    /\ ALast.fee > 0
    /\ ALast.fee < ALast.amount
    /\ accounts[ALast.sender].balance = 0

(***************************************************************************)
(* Concurrent invocations of execute_transfer (specification SpecConc)     *)
(***************************************************************************)

\* the accounts, the ledger and the two results are those of running the
\* invocation first and then the invocation second, each as a whole, from the
\* state the invocations started from
SerialOutcome(first, second) ==
    LET a == invocations.frames[first]
        b == invocations.frames[second]
        st == invocations.start
    IN  \E fee_a \in FeeChoices(st.accounts[a.sender], st.cluster_wealth,
                                fee_config, a.amount) :
           LET r1 == execute_transfer(st.accounts, st.cluster_wealth, a.sender,
                                      a.receiver, a.amount, a.decay_rate, fee_a)
           IN  \E fee_b \in FeeChoices(r1.accounts[b.sender], r1.cluster_wealth,
                                       fee_config, b.amount) :
                  LET r2 == execute_transfer(r1.accounts, r1.cluster_wealth,
                                             b.sender, b.receiver, b.amount,
                                             b.decay_rate, fee_b)
                  IN  /\ r2.accounts = accounts
                      /\ r2.cluster_wealth = cluster_wealth
                      /\ r1.success = a.success
                      /\ r2.success = b.success
                      /\ r1.fee = a.fee
                      /\ r2.fee = b.fee

\* C20: when two execute_transfer invocations interleaved statement by
\* statement have both returned, the balances, tags, ledger and results are
\* those of one of the two serial orders of the same two calls.
TransfersSerializable ==
    (\A p \in Invocations : invocations.frames[p].pc = "returned") =>
        \/ SerialOutcome(1, 2)
        \/ SerialOutcome(2, 1)

(***************************************************************************)
(* Fee curves (specification SpecFn)                                       *)
(***************************************************************************)

\* C21: with steepness 0 and r_min_bps # r_max_bps, FeeConfig.rate_bps
\* returns r_min_bps for an effective wealth below w_mid and r_max_bps for one
\* at or above w_mid, and no value in between.
SigmoidDegenerateStep ==
    (fn_obs.op = "rate_bps" /\ fn_obs.cfg.steepness = 0
        /\ fn_obs.cfg.r_min_bps # fn_obs.cfg.r_max_bps) =>
        LET step == IF fn_obs.effective_wealth < fn_obs.cfg.w_mid
                    THEN fn_obs.cfg.r_min_bps ELSE fn_obs.cfg.r_max_bps
        IN  fn_obs.result = [lo |-> step, hi |-> step]

\* C22: compute_fee_rate returns, for every source_wealth and max_wealth and
\* r_min <= r_max, a rate between r_min and r_max.
FeeRateBounded ==
    fn_obs.op = "compute_fee_rate" =>
        /\ ~FracLess(fn_obs.rate_a, Frac(fn_obs.r_min, 100))
        /\ ~FracLess(Frac(fn_obs.r_max, 100), fn_obs.rate_a)

\* C23: three_segment_fee_rate has no jump at w1 or w2: at effective wealth
\* w1 the rate is the first segment's r_poor, and between w1 and w2 the rate
\* is the linear interpolation between r_poor at w1 and r_rich at w2.
FlatLinearFlat ==
    (fn_obs.op = "three_segment_fee_rate" /\ fn_obs.max_wealth > 0) =>
        LET cfg == fn_obs.cfg
            w1 == fn_obs.max_wealth * cfg.w1
            w2 == fn_obs.max_wealth * cfg.w2
            ew == fn_obs.effective_wealth * 100
        IN  /\ ew = w1 => fn_obs.result = Frac(cfg.r_poor, 100)
            /\ (w1 <= ew /\ ew < w2) =>
                  fn_obs.result
                      = Frac(cfg.r_poor * (w2 - w1)
                             + (ew - w1) * (cfg.r_rich - cfg.r_poor),
                             100 * (w2 - w1))

(***************************************************************************)
(* Properties of gini_utxo_model.py (specification SpecUtxoModel)          *)
(***************************************************************************)

ULast == utxo_model_obs.last

UtxoTransferred == ULast.op = "transfer" /\ ULast.success

NoRepeats(ids) == \A i, j \in 1..Len(ids) : ids[i] = ids[j] => i = j

\* C29: in gini_utxo_model.UTXOSet every id given so far is below next_id
\* (none is given twice), a spent id is never live, a transfer selects only
\* live UTXOs and each once, by_owner lists every live id exactly once and
\* under its owner and lists no spent id, and get_owner_balance is the sum
\* of the values of the owner's live UTXOs.
UtxoSetIntegrity ==
    LET us == utxo_model.utxo_set
        live == DOMAIN us.utxos
        value == [i \in live |-> us.utxos[i].value]
    IN  /\ \A id \in live \cup utxo_model_obs.spent : id < us.next_id
        /\ utxo_model_obs.spent \cap live = {}
        /\ ULast.op = "transfer" =>
              /\ NoRepeats(ULast.selected)
              /\ \A i \in 1..Len(ULast.selected) :
                    ULast.selected[i] \in DOMAIN ULast.before.utxo_set.utxos
              /\ us.next_id >= ULast.before.utxo_set.next_id
        /\ \A o \in DOMAIN us.by_owner :
              /\ NoRepeats(us.by_owner[o])
              /\ \A k \in 1..Len(us.by_owner[o]) :
                    /\ us.by_owner[o][k] \in live
                    /\ us.utxos[us.by_owner[o][k]].owner = o
        /\ \A id \in live :
              /\ us.utxos[id].owner \in DOMAIN us.by_owner
              /\ \E k \in 1..Len(us.by_owner[us.utxos[id].owner]) :
                    us.by_owner[us.utxos[id].owner][k] = id
        /\ \A o \in UtxoAgentIds :
              get_owner_balance(us, o)
                  = SumSet(value, {id \in live : us.utxos[id].owner = o})

\* a successful transfer after other UTXOs were spent, several still live
UtxoSetIntegrityWitness ==
    /\ UtxoTransferred
    /\ Cardinality(utxo_model_obs.spent) >= 2
    /\ Cardinality(utxo_model_obs.spent) > Len(ULast.selected)
    /\ Cardinality(DOMAIN utxo_model.utxo_set.utxos) >= 3

(***************************************************************************)
(* Further properties of wealth_cluster_tax.py (specification SpecSim)     *)
(***************************************************************************)

RECURSIVE SumInputValues(_)
SumInputValues(inputs) ==
    IF inputs = <<>> THEN 0 ELSE Head(inputs).value + SumInputValues(Tail(inputs))

\* C25: after any sequence of Simulation.mint and Simulation.transfer calls
\* the values of the live UTXOs plus total_fees_burned equal the values
\* minted; a successful transfer gives the receiver a UTXO of exactly amount,
\* gives the sender change = spent_value - amount - fee when that is
\* positive and nothing otherwise, and adds exactly fee to total_fees_burned.
FeeOnTopConservation ==
    /\ LiveValue(sim) + sim.total_fees_burned = sim_obs.minted
    /\ (SLast.op = "transfer" /\ SLast.status = "ok") =>
          LET change == SumInputValues(SLast.inputs) - SLast.amount - SLast.fee
          IN  /\ SLast.outputs[1].value = SLast.amount
              /\ SLast.outputs[1].owner = SLast.receiver
              /\ change > 0 =>
                    /\ Len(SLast.outputs) = 2
                    /\ SLast.outputs[2].value = change
                    /\ SLast.outputs[2].owner = SLast.sender
              /\ change <= 0 => Len(SLast.outputs) = 1
              /\ sim.total_fees_burned
                    = SLast.sim_before.total_fees_burned + SLast.fee
              /\ \A k \in 1..Len(SLast.outputs) :
                    /\ SLast.outputs[k].id \in DOMAIN sim.utxos
                    /\ sim.utxos[SLast.outputs[k].id] = SLast.outputs[k]

\* a transfer of a positive amount that burned a fee and left change
FeeOnTopConservationWitness ==
    /\ SLast.op = "transfer"
    /\ SLast.status = "ok"
    /\ SLast.amount > 0
    /\ SLast.fee > 0
    /\ Len(SLast.outputs) = 2
    /\ SLast.sender # SLast.receiver

(***************************************************************************)
(* Further properties of the pure functions (specification SpecFn)         *)
(***************************************************************************)

\* C26: apply_decay(tags, 0) returns tags when no weight of tags is below
\* the prune threshold, apply_decay(tags, TAG_SCALE) returns the empty
\* vector, and for every decay_rate the output has no cluster that the input
\* lacks and no weight above the input's.
DecayEndPoints ==
    fn_obs.op = "apply_decay" =>
        /\ (fn_obs.decay_rate = 0 /\ PruneInvariant(fn_obs.tags)) =>
              fn_obs.result = fn_obs.tags
        /\ fn_obs.decay_rate = TAG_SCALE => fn_obs.result = EmptyTags
        /\ DOMAIN fn_obs.result \subseteq DOMAIN fn_obs.tags
        /\ \A c \in DOMAIN fn_obs.result : fn_obs.result[c] <= fn_obs.tags[c]

\* a decay strictly between the end points that lowered one weight of a
\* two-cluster vector and pruned the other
DecayEndPointsWitness ==
    /\ fn_obs.op = "apply_decay"
    /\ fn_obs.decay_rate > 0
    /\ fn_obs.decay_rate < TAG_SCALE
    /\ Cardinality(DOMAIN fn_obs.tags) = 2
    /\ Cardinality(DOMAIN fn_obs.result) = 1
    /\ \E c \in DOMAIN fn_obs.result : fn_obs.result[c] < fn_obs.tags[c]

LastRemoved == DOMAIN Last.before.utxos \ DOMAIN utxo_set.utxos

\* C30: a successful transfer creates outputs whose values plus the fee are at
\* most the values of the distinct UTXOs it removed, and when every coin the
\* caller minted has a value > 0 every live UTXO has a value > 0.
NoValueCreated ==
    /\ (Last.op = "transfer" /\ Last.status = "ok") =>
          TotalOutputValue(Last.outputs) + Last.fee
             <= SumSet([i \in LastRemoved |-> Last.before.utxos[i].value],
                       LastRemoved)
    /\ (\A m \in ref_obs.mints : m.value > 0) =>
          \A id \in DOMAIN utxo_set.utxos : utxo_set.utxos[id].value > 0

\* the part of C30 about one transfer: outputs plus fee within the removed value
OutputsWithinRemoved ==
    (Last.op = "transfer" /\ Last.status = "ok") =>
       TotalOutputValue(Last.outputs) + Last.fee
          <= SumSet([i \in LastRemoved |-> Last.before.utxos[i].value],
                    LastRemoved)

\* C28: on every successful execute_transfer the mass amount * weight //
\* TAG_SCALE leaving a cluster of the sender is at most the wealth recorded
\* for that cluster before the call, and no cluster's recorded wealth is
\* larger after the call than before it.
ClampNeverExercised ==
    (ALast.op = "execute_transfer" /\ ALast.success) =>
       LET tags == ALast.accounts_before[ALast.sender].tags
           before == ALast.cluster_wealth_before
       IN  /\ \A c \in DOMAIN tags :
                 (ALast.amount * tags[c]) \div TAG_SCALE
                    <= ClusterWealthGet(before, c)
           /\ \A c \in DOMAIN cluster_wealth.wealth :
                 cluster_wealth.wealth[c] <= ClusterWealthGet(before, c)

====
